---- MODULE Spec2Model ----
(***************************************************************************)
(* Store / DataTable / Meta / DataBase persistence layer of RomCom         *)
(* (rc/base/models.py and its predecessor romcomma/base/models.py),        *)
(* modelled over an explicit filesystem.                                   *)
(***************************************************************************)
EXTENDS Integers, Sequences, FiniteSets, TLC

VARIABLES pkg, fs, db, meta, table, model, procs, last, ops

vars == <<pkg, fs, db, meta, table, model, procs, last, ops>>

\* No process is running beside the caller.
NoProcs == <<>>

\* Number of operations performed in one run.
MaxOps == 2

(***************************************************************************)
(* Paths.  A path is a sequence of names; a name is the sequence of its    *)
(* pieces as pathlib splits it at the dots: the first piece, then every    *)
(* later piece with its dot, the last of which is the suffix.  A path      *)
(* argument is a pathlib.Path, a str, or (through the walrus expression of *)
(* DataBase.__call__) a bool.                                              *)
(***************************************************************************)
N(stem, suffix) == IF suffix = "" THEN <<stem>> ELSE <<stem, suffix>>

\* pathlib.PurePath.suffix: the last piece of the last name, if it has more than one.
suffix(parts) == IF Len(parts[Len(parts)]) > 1 THEN parts[Len(parts)][Len(parts[Len(parts)])] ELSE ""

PathObj(parts) == [tag |-> "Path", parts |-> parts]

StrPath(parts) == [tag |-> "str", parts |-> parts]

BoolPath == [tag |-> "bool", parts |-> <<>>]

NonePath == [tag |-> "None", parts |-> <<>>]

\* pathlib.Path(x): a TypeError unless x is a str or a path.
PathCtorOk(arg) == arg.tag \in {"Path", "str"}

\* pathlib.PurePath.with_suffix: drops the suffix of the last name, if any, and appends ext.
with_suffix(parts, ext) ==
    [parts EXCEPT ![Len(parts)] =
        (IF Len(@) > 1 THEN SubSeq(@, 1, Len(@) - 1) ELSE @) \o (IF ext = "" THEN <<>> ELSE <<ext>>)]

\* pathlib's "/" with a str on the right: the str is one name without a dot here.
Div(parts, name) == Append(parts, N(name, ""))

parent(parts) == SubSeq(parts, 1, Len(parts) - 1)

\* The operator "path / name" of the source: defined for a Path on the left only.
DivOk(arg) == arg.tag = "Path"

(***************************************************************************)
(* Class attributes.                                                       *)
(***************************************************************************)
\* Store.ext, DataTable.ext, Meta.ext: the extension of each Store class.
ext == [Store |-> "", DataBase |-> "", Model |-> "", DataTable |-> ".csv", Meta |-> ".json"]

(***************************************************************************)
(* pandas tables and their csv text.                                       *)
(***************************************************************************)
\* str(n) for the cell values and row numbers of the model.
IntStr == <<"0", "1", "2", "3", "4", "5", "6", "7", "8", "9">>

str(n) == IntStr[n + 1]

IsNumeric(text) == \E n \in 0..9 : str(n) = text

\* int(text) as read_csv infers it.
int(text) == CHOOSE n \in 0..9 : str(n) = text

Lbl(dtype, text) == [dtype |-> dtype, text |-> text]

\* pd.RangeIndex(n): the labels 0 .. n-1.
RangeIndex(n) == [i \in 1..n |-> Lbl("int64", str(i - 1))]

\* pd.DataFrame(data): default integer row and column labels.  A frame has one level of
\* column labels, columns, and below it the further levels of a pd.MultiIndex, sublevels,
\* each a row of texts, one for every column.
DataFrame(values) ==
    [columns |-> RangeIndex(IF values = <<>> THEN 0 ELSE Len(values[1])),
     sublevels |-> <<>>,
     index |-> RangeIndex(Len(values)),
     values |-> values]

NoFrame == [columns |-> <<>>, sublevels |-> <<>>, index |-> <<>>, values |-> <<>>]

\* dict | dict of the source: the right operand wins.
DictOr(f, g) == [k \in (DOMAIN f) \cup (DOMAIN g) |-> IF k \in DOMAIN g THEN g[k] ELSE f[k]]

\* dict.get(key, default)
DictGet(f, k, default) == IF k \in DOMAIN f THEN f[k] ELSE default

EmptyDict == <<>>

\* A csv text: its lines, each the sequence of its fields.
NoCsv == <<>>

\* A variant of to_csv that never writes the index column; C17 rejects it.
to_csv_no_index(df, write_options) ==
    <<[c \in 1..Len(df.columns) |-> df.columns[c].text]>>
        \o [l \in 1..Len(df.sublevels) |-> df.sublevels[l]]
        \o [r \in 1..Len(df.values) |-> [c \in 1..Len(df.values[r]) |-> str(df.values[r][c])]]

\* DataFrame.to_csv(path, **write_options): one header line per level of the columns,
\* then one line per row; with index=True (the default) every line starts with the
\* index field.
to_csv(df, write_options) ==
    LET withIndex == DictGet(write_options, "index", "True") = "True"
        lead(t) == IF withIndex THEN <<t>> ELSE <<>>
    IN  <<lead("") \o [c \in 1..Len(df.columns) |-> df.columns[c].text]>>
            \o [l \in 1..Len(df.sublevels) |-> lead("") \o df.sublevels[l]]
            \o [r \in 1..Len(df.values) |->
                    lead(df.index[r].text) \o [c \in 1..Len(df.values[r]) |-> str(df.values[r][c])]]

\* The label read_csv infers from a text: numeric text becomes an integer label.
Infer(text) == Lbl(IF IsNumeric(text) THEN "int64" ELSE "object", text)

\* The number of header lines read_csv takes: header=[0, 1] names two, the default one.
HeaderRows(read_options) == IF DictGet(read_options, "header", "infer") = "[0, 1]" THEN 2 ELSE 1

\* pd.read_csv(path, **read_options): the header lines give the levels of the columns,
\* whose labels are read as strings; the index column (index_col=0) and the cells, which
\* are digits in every file of the model, are parsed.
read_csv(csv, read_options) ==
    LET indexed == DictGet(read_options, "index_col", "None") = "0"
        skip(s) == IF indexed THEN Tail(s) ELSE s
        names == skip(csv[1])
        data == SubSeq(csv, HeaderRows(read_options) + 1, Len(csv))
    IN  [columns |-> [c \in 1..Len(names) |-> Lbl("object", IF names[c] = "" THEN "Unnamed: 0" ELSE names[c])],
         sublevels |-> [l \in 1..(HeaderRows(read_options) - 1) |-> skip(csv[l + 1])],
         index |-> [r \in 1..Len(data) |->
                      IF indexed THEN Infer(data[r][1]) ELSE Lbl("int64", str(r - 1))],
         values |-> [r \in 1..Len(data) |->
                      [c \in 1..Len(skip(data[r])) |-> int(skip(data[r])[c])]]]

(***************************************************************************)
(* The filesystem: a function from the paths that exist to their entries.  *)
(* The working directory <<>> always exists.                               *)
(***************************************************************************)
DirEntry == [kind |-> "dir", csv |-> NoCsv, json |-> EmptyDict]

CsvFile(csv) == [kind |-> "csv", csv |-> csv, json |-> EmptyDict]

JsonFile(json) == [kind |-> "json", csv |-> NoCsv, json |-> json]

RawFile == [kind |-> "raw", csv |-> NoCsv, json |-> EmptyDict]

EmptyFS == [p \in {} |-> DirEntry]

Exists(f, p) == p = <<>> \/ p \in DOMAIN f

is_dir(f, p) == p = <<>> \/ (p \in DOMAIN f /\ f[p].kind = "dir")

is_file(f, p) == p \in DOMAIN f /\ f[p].kind # "dir"

Put(f, p, e) == [q \in (DOMAIN f) \cup {p} |-> IF q = p THEN e ELSE f[q]]

IsPrefix(p, q) == Len(p) <= Len(q) /\ SubSeq(q, 1, Len(p)) = p

\* Path.mkdir(parents=True, exist_ok=True)
RECURSIVE mkdir(_, _)
mkdir(f, p) ==
    IF is_dir(f, p) THEN [err |-> "ok", fs |-> f]
    ELSE IF Exists(f, p) THEN [err |-> "FileExistsError", fs |-> f]
    ELSE LET up == mkdir(f, parent(p))
         IN  IF up.err = "FileExistsError" THEN [err |-> "NotADirectoryError", fs |-> f]
             ELSE IF up.err # "ok" THEN up
             ELSE [err |-> "ok", fs |-> Put(up.fs, p, DirEntry)]

\* shutil.rmtree(path, ignore_errors=True): the folder and all it contains.
rmtree(f, p) == [q \in {x \in DOMAIN f : ~IsPrefix(p, x)} |-> f[q]]

\* Path.unlink(missing_ok=True)
unlink(f, p) == [q \in (DOMAIN f) \ {p} |-> f[q]]

\* A variant of the open for writing that replaces a folder by the file; C11 rejects it.
OpenW_over_folder(f, p) ==
    IF ~Exists(f, parent(p)) THEN "FileNotFoundError"
    ELSE IF ~is_dir(f, parent(p)) THEN "NotADirectoryError"
    ELSE "ok"

\* open(path, mode='w') and DataFrame.to_csv(path): the error the open raises, if any.
OpenW(f, p) ==
    IF is_dir(f, p) THEN "IsADirectoryError"
    ELSE IF ~Exists(f, parent(p)) THEN "FileNotFoundError"
    ELSE IF ~is_dir(f, parent(p)) THEN "NotADirectoryError"
    ELSE "ok"

\* open(path, mode='r') and pd.read_csv(path): the error the open raises, if any.
OpenR(f, p) ==
    IF is_dir(f, p) THEN "IsADirectoryError"
    ELSE IF ~Exists(f, p) THEN "FileNotFoundError"
    ELSE "ok"

\* shutil.copyfile(src, dst): one file, onto dst.
copyfile(f, src, dst) ==
    IF src = dst /\ Exists(f, src) THEN [err |-> "SameFileError", fs |-> f]
    ELSE IF OpenR(f, src) # "ok" THEN [err |-> OpenR(f, src), fs |-> f]
    ELSE IF OpenW(f, dst) # "ok" THEN [err |-> OpenW(f, dst), fs |-> f]
    ELSE [err |-> "ok", fs |-> Put(f, dst, f[src])]

\* shutil.copytree(src, dst, dirs_exist_ok=True) for folders neither of which lies in the
\* other.  A folder of src is made in dst unless a file has its name there, in which case
\* nothing beneath it is copied; a file of src is copied by shutil.copy2, which copies
\* into dst's entry of that name if that is a folder.  The failures of single entries
\* are raised together as shutil.Error once everything else has been copied.
copytree(f, src, dst) ==
    LET from == {q \in DOMAIN f : IsPrefix(src, q) /\ q # src}
        To(q) == dst \o SubSeq(q, Len(src) + 1, Len(q))
        DirClash(q) == f[q].kind = "dir" /\ is_file(f, To(q))
        Skipped(q) == \E a \in from : IsPrefix(a, q) /\ DirClash(a)
        Into(q) == IF is_dir(f, To(q)) THEN Append(To(q), q[Len(q)]) ELSE To(q)
        FileClash(q) == f[q].kind # "dir" /\ (is_dir(f, Into(q)) \/ Into(q) = q)
        dirs == {q \in from : f[q].kind = "dir" /\ ~Skipped(q)}
        files == {q \in from : f[q].kind # "dir" /\ ~Skipped(q) /\ ~FileClash(q)}
        Copied(made) ==
            IF made.err # "ok" THEN [err |-> made.err, fs |-> f]
            ELSE [err |-> IF \E q \in from : DirClash(q) \/ (~Skipped(q) /\ FileClash(q))
                          THEN "Error" ELSE "ok",
                  fs |-> [t \in (DOMAIN made.fs) \cup {To(q) : q \in dirs} \cup {Into(q) : q \in files} |->
                             IF \E q \in files : Into(q) = t THEN f[CHOOSE q \in files : Into(q) = t]
                             ELSE IF t \in DOMAIN made.fs THEN made.fs[t]
                             ELSE DirEntry]]
    IN  Copied(mkdir(f, dst))

\* A variant of the write that leaves the file as it was; C3 rejects it.
write_text_skipped(f, p, entry) == f

\* A variant of the write that opens with mode 'a': the new text follows the old; C9 rejects it.
write_text_append(f, p, entry) ==
    IF p \in DOMAIN f /\ f[p].kind = "csv" /\ entry.kind = "csv"
    THEN Put(f, p, CsvFile(f[p].csv \o entry.csv))
    ELSE Put(f, p, entry)

\* Writing a file opened with mode 'w' (open(path, mode='w'), DataFrame.to_csv(path)):
\* the file holds the new text only.
write_text(f, p, entry) == Put(f, p, entry)

\* The effects of a call so far: the filesystem, and the files read and written, in order.
World(f) == [fs |-> f, reads |-> <<>>, writes |-> <<>>]

(***************************************************************************)
(* Store                                                                   *)
(***************************************************************************)
\* Store._create(cls, path)
Store_create(cls, path, f) ==
    LET Made(p, made) == [err |-> made.err, path |-> p, fs |-> made.fs]
        Normal(p) == Made(p, mkdir(f, IF ext[cls] = "" THEN p ELSE parent(p)))
    IN  IF ~PathCtorOk(path) THEN [err |-> "TypeError", path |-> <<>>, fs |-> f]
        ELSE Normal(with_suffix(path.parts, ext[cls]))

\* Store.__call__(self, path): a path that is not None is normalized and becomes the new path.
Store__call__(cls, self_path, path, f) ==
    IF path.tag = "None" THEN [err |-> "ok", path |-> self_path, fs |-> f]
    ELSE Store_create(cls, path, f)

\* Store.copy(cls, src, dst)
Store_copy(cls, src, dst, f) ==
    IF ~PathCtorOk(src) \/ ~PathCtorOk(dst) THEN [err |-> "TypeError", fs |-> f]
    ELSE IF is_dir(f, with_suffix(src.parts, ext[cls]))
         THEN copytree(f, with_suffix(src.parts, ext[cls]), with_suffix(dst.parts, ext[cls]))
    ELSE copyfile(f, with_suffix(src.parts, ext[cls]), with_suffix(dst.parts, ext[cls]))

\* A variant of Store.delete that unlinks and never removes a folder; C10 rejects it.
Store_delete_unlink(cls, path, f) ==
    IF ~PathCtorOk(path) THEN [err |-> "TypeError", path |-> <<>>, fs |-> f]
    ELSE IF is_dir(f, with_suffix(path.parts, ext[cls]))
         THEN [err |-> "ok", path |-> with_suffix(path.parts, ext[cls]), fs |-> f]
    ELSE [err |-> "ok", path |-> with_suffix(path.parts, ext[cls]),
          fs |-> unlink(f, with_suffix(path.parts, ext[cls]))]

\* Store.delete(cls, path)
Store_delete(cls, path, f) ==
    LET Normal(p) == [err |-> "ok", path |-> p,
                      fs |-> IF is_dir(f, p) THEN rmtree(f, p) ELSE unlink(f, p)]
    IN  IF ~PathCtorOk(path) THEN [err |-> "TypeError", path |-> <<>>, fs |-> f]
        ELSE Normal(with_suffix(path.parts, ext[cls]))

(***************************************************************************)
(* DataTable                                                               *)
(***************************************************************************)
\* The values a caller passes as a table: Data = DataFrame | NP.Matrix | TC.Matrix,
\* a DataTable, or something else (a tuple, None).
Data(kind, df) == [kind |-> kind, pd |-> df]

None == Data("None", NoFrame)

\* numpy broadcasting of a matrix to shape (R, C).
BroadcastOk(v, R, C) == v # <<>> /\ Len(v) \in {1, R} /\ Len(v[1]) \in {1, C}

Broadcast(v, R, C) ==
    [i \in 1..R |-> [j \in 1..C |-> v[IF Len(v) = 1 THEN 1 ELSE i][IF Len(v[1]) = 1 THEN 1 ELSE j]]]

\* A DataTable instance: _path, _pd (unset until first assigned), read_options, write_options.
DataTable(path, df, has_pd, ro, wo) ==
    [path |-> path, pd |-> df, has_pd |-> has_pd, read_options |-> ro, write_options |-> wo]

NoTable == DataTable(<<>>, NoFrame, FALSE, EmptyDict, EmptyDict)

Raise(err, h, w) == [err |-> err, h |-> h, w |-> w]

\* DataTable.__call__(self, data, path, **options)
DataTable__call__(h, data, path, options, w) ==
    LET Stored(h2, w1, opened) ==
            IF opened # "ok" THEN Raise(opened, h2, w1)
            ELSE Raise("ok", h2,
                       [w1 EXCEPT !.fs = write_text(@, h2.path, CsvFile(to_csv(h2.pd, h2.write_options))),
                                  !.writes = Append(@, h2.path)])
        \* self.write_options |= options; self._pd.to_csv(self._path, **self.write_options)
        Store(h2, w1) == Stored(h2, w1, IF ~h2.has_pd THEN "AttributeError" ELSE OpenW(w1.fs, h2.path))
        Options(h1) == [h1 EXCEPT !.write_options = DictOr(@, options)]
        \* the isinstance chain: what it raises, and the table it leaves in self._pd
        Raised(h1) ==
            CASE data.kind \in {"DataTable", "DataFrame"} -> "ok"
              [] data.kind = "ndarray" ->
                    IF ~h1.has_pd THEN "AttributeError"
                    ELSE IF ~BroadcastOk(data.pd.values, Len(h1.pd.values), Len(h1.pd.columns))
                         THEN "ValueError"
                    ELSE "ok"
              [] OTHER -> IF pkg = "rc" THEN "NameError" ELSE "ok"
        Assigned(h1) ==
            CASE data.kind \in {"DataTable", "DataFrame"} -> [h1 EXCEPT !.pd = data.pd, !.has_pd = TRUE]
              [] data.kind = "ndarray" ->
                    [h1 EXCEPT !.pd.values = Broadcast(data.pd.values, Len(h1.pd.values), Len(h1.pd.columns))]
              [] OTHER -> h1
        Assign(h1, w1) ==
            IF Raised(h1) # "ok" THEN Raise(Raised(h1), h1, w1)
            ELSE Store(Options(Assigned(h1)), w1)
        Moved(m) == IF m.err # "ok" THEN Raise(m.err, h, [w EXCEPT !.fs = m.fs])
                    ELSE Assign([h EXCEPT !.path = m.path], [w EXCEPT !.fs = m.fs])
    IN  Moved(Store__call__("DataTable", h.path, path, w.fs))

\* DataTable.np: the cells of the table as a matrix.
np(h) == h.pd.values

Min(a, b) == IF a < b THEN a ELSE b

\* np.diag(np.diagonal(data)): the square matrix of the diagonal of data, zero elsewhere.
diag_diagonal(data) ==
    LET n == IF data = <<>> THEN 0 ELSE Min(Len(data), Len(data[1]))
    IN  [i \in 1..n |-> [j \in 1..n |-> IF i = j THEN data[i][i] ELSE 0]]

\* A variant of broadcast_to that changes the table in memory and stores nothing; C18
\* rejects it.
DataTable_broadcast_to_unsaved(h, target_shape, is_diagonal, w) ==
    IF ~BroadcastOk(np(h), target_shape[1], target_shape[2]) THEN Raise("IndexError", h, w)
    ELSE Raise("ok", [h EXCEPT !.pd = DataFrame(Broadcast(np(h), target_shape[1], target_shape[2]))], w)

\* DataTable.broadcast_to(self, target_shape, is_diagonal)
DataTable_broadcast_to(h, target_shape, is_diagonal, w) ==
    LET Broadcasted(data) ==
            DataTable__call__(h, Data("ndarray", DataFrame(
                                      IF is_diagonal /\ target_shape[1] > 1 THEN diag_diagonal(data) ELSE data)),
                              NonePath, EmptyDict, w)
    IN  IF ~BroadcastOk(np(h), target_shape[1], target_shape[2]) THEN Raise("IndexError", h, w)
        ELSE Broadcasted(Broadcast(np(h), target_shape[1], target_shape[2]))

\* DataTable.__init__(self, path, data, **options)
DataTable__init__(path, data, options, w) ==
    LET New(p) == DataTable(p, NoFrame, FALSE, [index_col |-> "0"], EmptyDict)
        \* pd.read_csv(self.path, **self.read_options): what it raises, and the table it reads
        Opened(hr, w1, opened) ==
            IF opened # "ok" THEN opened
            ELSE IF w1.fs[hr.path].kind # "csv" THEN "ParserError"
            ELSE IF Len(w1.fs[hr.path].csv) < HeaderRows(hr.read_options) THEN "ParserError"
            ELSE "ok"
        Read(hr, w1) == Data("DataFrame", read_csv(w1.fs[hr.path].csv, hr.read_options))
        \* self(pd.read_csv(...)) if data is None, self(data, **self.write_options) otherwise
        Called(h1, w1, opened) ==
            IF opened # "ok" THEN Raise(opened, h1, w1)
            ELSE DataTable__call__(h1, IF data.kind = "None" THEN Read(h1, w1) ELSE data, NonePath,
                                   h1.write_options,
                                   IF data.kind = "None" THEN [w1 EXCEPT !.reads = Append(@, h1.path)] ELSE w1)
        Begun(h1, w1) ==
            Called(h1, w1, IF data.kind = "None" THEN Opened(h1, w1, OpenR(w1.fs, h1.path)) ELSE "ok")
        Made(made) ==
            IF made.err # "ok" THEN Raise(made.err, NoTable, [w EXCEPT !.fs = made.fs])
            ELSE Begun(IF data.kind = "None"
                       THEN [New(made.path) EXCEPT !.read_options = DictOr(@, options)]
                       ELSE [New(made.path) EXCEPT !.write_options = DictOr(@, options)],
                       [w EXCEPT !.fs = made.fs])
    IN  Made(Store_create("DataTable", path, w.fs))

\* pd.DataFrame(data.pd if isinstance(data, DataTable) else data)
to_frame(data) ==
    CASE data.kind \in {"DataTable", "DataFrame"} -> data.pd
      [] data.kind = "None" -> NoFrame
      [] OTHER -> DataFrame(data.pd.values)

\* DataTable.create(cls, path, data, **options)
DataTable_create(path, data, options, w) ==
    DataTable__init__(path, Data("DataFrame", to_frame(data)), options, w)

(***************************************************************************)
(* Meta                                                                    *)
(***************************************************************************)
\* A metadata value: its Python type and its text.
Val(type, text) == [type |-> type, text |-> text]

\* json.dump: a tuple is written as an array, which json.load reads as a list.
dump(data) == [k \in DOMAIN data |-> IF data[k].type = "tuple" THEN Val("list", data[k].text) ELSE data[k]]

\* json.dump raises TypeError on a value that is no JSON type (a set, a numpy array).
Serializable(data) == \A k \in DOMAIN data : data[k].type # "set"

\* The file json.dump leaves when it raises: opened with mode 'w', it holds the text
\* written before the value that could not be written.
TornFile == [kind |-> "torn", csv |-> NoCsv, json |-> EmptyDict]

\* json.load
load(json) == json

\* A Meta instance: _path and _data.
Meta(path, data) == [path |-> path, data |-> data]

NoMeta == Meta(<<>>, EmptyDict)

\* Meta.__call__(self, path, **data)
Meta__call__(h, path, data, w) ==
    LET Dumped(h1, w1, opened) ==
            IF opened # "ok" THEN Raise(opened, h1, w1)
            ELSE IF ~Serializable(h1.data)
                 THEN Raise("TypeError", h1, [w1 EXCEPT !.fs = write_text(@, h1.path, TornFile),
                                                        !.writes = Append(@, h1.path)])
            ELSE Raise("ok", h1, [w1 EXCEPT !.fs = write_text(@, h1.path, JsonFile(dump(h1.data))),
                                            !.writes = Append(@, h1.path)])
        Dump(h1, w1) == Dumped(h1, w1, OpenW(w1.fs, h1.path))
        Moved(m) == IF m.err # "ok" THEN Raise(m.err, h, [w EXCEPT !.fs = m.fs])
                    ELSE Dump([h EXCEPT !.path = m.path, !.data = DictOr(@, data)], [w EXCEPT !.fs = m.fs])
    IN  Moved(Store__call__("Meta", h.path, path, w.fs))

\* A variant of Meta.__init__ that merges data into the record of an existing file;
\* C14 rejects it.
Meta__init__merge(path, data, w) ==
    LET Opened(p, w1, opened) ==
            IF opened # "ok" THEN Raise(opened, Meta(p, EmptyDict), w1)
            ELSE IF w1.fs[p].kind # "json" THEN Raise("JSONDecodeError", Meta(p, EmptyDict), w1)
            ELSE Raise("ok", Meta(p, load(w1.fs[p].json)), [w1 EXCEPT !.reads = Append(@, p)])
        Made(made) ==
            IF made.err # "ok" THEN Raise(made.err, NoMeta, [w EXCEPT !.fs = made.fs])
            ELSE IF data = EmptyDict
                 THEN Opened(made.path, [w EXCEPT !.fs = made.fs], OpenR(made.fs, made.path))
                 ELSE Meta__call__(Meta(made.path,
                                        IF made.path \in DOMAIN made.fs /\ made.fs[made.path].kind = "json"
                                        THEN DictOr(load(made.fs[made.path].json), data) ELSE data),
                                   path, EmptyDict, [w EXCEPT !.fs = made.fs])
    IN  Made(Store_create("Meta", path, w.fs))

\* Meta.__init__(self, path, **data)
Meta__init__(path, data, w) ==
    LET Opened(p, w1, opened) ==
            IF opened # "ok" THEN Raise(opened, Meta(p, EmptyDict), w1)
            ELSE IF w1.fs[p].kind # "json" THEN Raise("JSONDecodeError", Meta(p, EmptyDict), w1)
            ELSE Raise("ok", Meta(p, load(w1.fs[p].json)), [w1 EXCEPT !.reads = Append(@, p)])
        Made(made) ==
            IF made.err # "ok" THEN Raise(made.err, NoMeta, [w EXCEPT !.fs = made.fs])
            ELSE IF data = EmptyDict
                 THEN Opened(made.path, [w EXCEPT !.fs = made.fs], OpenR(made.fs, made.path))
                 ELSE Meta__call__(Meta(made.path, data), path, EmptyDict, [w EXCEPT !.fs = made.fs])
    IN  Made(Store_create("Meta", path, w.fs))

\* A variant of Meta.create that passes the data on as it is; C16 rejects it.
Meta_create_as_given(path, data, w) == Meta__init__(path, data, w)

\* Meta.create(cls, path, **data)
Meta_create(path, data, w) ==
    Meta__init__(path,
                 IF data = EmptyDict THEN [NotImplemented |-> Val("str", "in call to Meta.create()")] ELSE data,
                 w)

(***************************************************************************)
(* DataBase                                                                *)
(***************************************************************************)
\* Keyword arguments keep their order: a sequence of <<name, value>> pairs with distinct names.
KwNames(kw) == {kw[i][1] : i \in 1..Len(kw)}

\* The dict a sequence of keyword arguments denotes.
Dict(kw) == [n \in KwNames(kw) |-> kw[CHOOSE i \in 1..Len(kw) : kw[i][1] = n][2]]

\* "cls.Tables is not DataBase.Tables": the class declares its tables.
Declared(cls) == cls # "DataBase"

\* cls.Tables._fields of the subclass MyDataBase(DataBase), declared after the template,
\* and of Model.DataBase, whose Tables has the one field NotImplemented.
table_names(cls) == IF cls = "Model.DataBase" THEN <<"NotImplemented">> ELSE <<"A", "B">>

\* cls.Tables._field_defaults; the default of Model.DataBase is a frame of one cell, a
\* text in the source and a digit here, as every cell is.
table_defaults(cls) ==
    IF cls = "Model.DataBase" THEN [NotImplemented |-> Data("DataFrame", DataFrame(<<<<0>>>>))]
    ELSE [A |-> Data("DataFrame", DataFrame(<<<<0>>>>)), B |-> Data("DataFrame", DataFrame(<<<<5>>>>))]

\* cls.read_options and cls.write_options: {table name: Options}
read_options(cls) == EmptyDict

write_options(cls) == EmptyDict

\* A DataBase instance: its class, _path and _tables.
DB(live, cls, path, tables) == [live |-> live, cls |-> cls, path |-> path, tables |-> tables]

NoTables == [A |-> NoTable, B |-> NoTable]

NoDB == DB(FALSE, "DataBase", <<>>, NoTables)

\* The tables of an instance of cls before any is constructed.
Unread(cls) == [n \in {table_names(cls)[i] : i \in 1..Len(table_names(cls))} |-> NoTable]

Ret(err, d, w) == [err |-> err, db |-> d, w |-> w]

\* The dict comprehension of DataBase.__init__: one DataTable per declared name, in order.
RECURSIVE ReadTables(_, _, _, _, _, _)
ReadTables(cls, path, tables, i, acc, w) ==
    LET Got(name, t) ==
            IF t.err # "ok" THEN [err |-> t.err, tables |-> acc, w |-> t.w]
            ELSE ReadTables(cls, path, tables, i + 1, [acc EXCEPT ![name] = t.h], t.w)
        Table(name, at) ==
            Got(name,
                DataTable__init__(at,
                                  IF name \in DOMAIN tables THEN tables[name] ELSE None,
                                  IF name \in DOMAIN tables
                                  THEN DictGet(write_options(cls), name, EmptyDict)
                                  ELSE DictGet(read_options(cls), name, EmptyDict),
                                  w))
    IN  IF i > Len(table_names(cls)) THEN [err |-> "ok", tables |-> acc, w |-> w]
        ELSE IF ~DivOk(path) THEN [err |-> "TypeError", tables |-> acc, w |-> w]
        ELSE Table(table_names(cls)[i], PathObj(Div(path.parts, table_names(cls)[i])))

\* A variant of DataBase.__init__ that reads every declared table from its file,
\* supplied or not; C2 rejects it.
DataBase__init__read_all(cls, path, tables, w) ==
    LET Read(p, r) == IF r.err # "ok" THEN Ret(r.err, NoDB, r.w)
                      ELSE Ret("ok", DB(TRUE, cls, p, r.tables), r.w)
        Made(made) ==
            IF made.err # "ok" THEN Ret(made.err, NoDB, [w EXCEPT !.fs = made.fs])
            ELSE Read(made.path, ReadTables(cls, path, EmptyDict, 1, Unread(cls), [w EXCEPT !.fs = made.fs]))
    IN  IF ~Declared(cls) THEN Ret("AssertionError", NoDB, w)
        ELSE Made(Store_create("DataBase", path, w.fs))

\* DataBase.__init__(self, path, **tables)
DataBase__init__(cls, path, tables, w) ==
    LET Read(p, r) == IF r.err # "ok" THEN Ret(r.err, NoDB, r.w)
                      ELSE Ret("ok", DB(TRUE, cls, p, r.tables), r.w)
        Made(made) ==
            IF made.err # "ok" THEN Ret(made.err, NoDB, [w EXCEPT !.fs = made.fs])
            ELSE Read(made.path, ReadTables(cls, path, tables, 1, Unread(cls), [w EXCEPT !.fs = made.fs]))
    IN  IF ~Declared(cls) THEN Ret("AssertionError", NoDB, w)
        ELSE Made(Store_create("DataBase", path, w.fs))

\* A variant of DataBase.create in which the declared defaults win over the caller's
\* tables; C1 rejects it.
DataBase_create_defaults_win(cls, path, tables, w) ==
    IF ~Declared(cls) THEN Ret("AssertionError", NoDB, w)
    ELSE DataBase__init__(cls, path, DictOr(tables, table_defaults(cls)), w)

\* DataBase.create(cls, path, **tables)
DataBase_create(cls, path, tables, w) ==
    IF ~Declared(cls) THEN Ret("AssertionError", NoDB, w)
    ELSE DataBase__init__(cls, path, DictOr(table_defaults(cls), tables), w)

\* DataBase.tables_as_dict: the DataTables of self by name.
tables_as_dict(self) == [n \in DOMAIN self.tables |-> Data("DataTable", self.tables[n].pd)]

\* DataBase.copy(cls, src, dst): rc declares tables_as_dict a property and calls its dict.
DataBase_copy(cls, src, dst, w) ==
    IF ~Declared(cls) \/ ~Declared(src.cls) THEN Ret("AssertionError", NoDB, w)
    ELSE IF pkg = "rc" THEN Ret("TypeError", NoDB, w)
    ELSE DataBase__init__(cls, dst, tables_as_dict(src), w)

\* "path := tables_and_path.pop('path', None) is not None" binds path to the bool.
Walrus(path) == IF path.tag # "None" THEN BoolPath ELSE NonePath

\* The relocating branch of DataBase.__call__: every table is created under the new path.
RECURSIVE Relocate(_, _, _, _)
Relocate(self, kw, i, w) ==
    LET Got(name, t) ==
            IF t.err # "ok" THEN Ret(t.err, self, t.w)
            ELSE Relocate([self EXCEPT !.tables[name] = t.h], kw, i + 1, t.w)
        Table(name) ==
            Got(name, DataTable_create(PathObj(Div(self.path, name)),
                                       DictGet(Dict(kw), name, Data("DataTable", self.tables[name].pd)),
                                       DictGet(write_options(self.cls), name, EmptyDict), w))
    IN  IF i > Len(table_names(self.cls)) THEN Ret("ok", self, w)
        ELSE Table(table_names(self.cls)[i])

\* The in-place branch of DataBase.__call__: the tables named in the call, in the call's order.
RECURSIVE Update(_, _, _, _)
Update(self, kw, i, w) ==
    LET Got(name, t) ==
            IF t.err # "ok" THEN Ret(t.err, [self EXCEPT !.tables[name] = t.h], t.w)
            ELSE Update([self EXCEPT !.tables[name] = t.h], kw, i + 1, t.w)
        Table(name, data) ==
            IF name \notin DOMAIN self.tables THEN Ret("KeyError", self, w)
            ELSE Got(name, DataTable__call__(self.tables[name], data, NonePath,
                                             DictGet(write_options(self.cls), name, EmptyDict), w))
    IN  IF i > Len(kw) THEN Ret("ok", self, w)
        ELSE Table(kw[i][1], kw[i][2])

\* A variant of DataBase.__call__ whose in-place branch stores every declared table,
\* named in the call or not; C6 rejects it.
DataBase__call__rewrite_all(self, path, kw, w) ==
    IF ~Declared(self.cls) THEN Ret("AssertionError", self, w)
    ELSE Update(self,
                [i \in 1..Len(table_names(self.cls)) |->
                    <<table_names(self.cls)[i],
                      DictGet(Dict(kw), table_names(self.cls)[i],
                              Data("DataTable", self.tables[table_names(self.cls)[i]].pd))>>],
                1, w)

\* DataBase.__call__(self, **tables_and_path), with the path keyword apart from the tables.
DataBase__call__(self, path, kw, w) ==
    LET Moved(m) ==
            IF m.err # "ok" THEN Ret(m.err, self, [w EXCEPT !.fs = m.fs])
            ELSE Relocate([self EXCEPT !.path = m.path], kw, 1, [w EXCEPT !.fs = m.fs])
    IN  IF ~Declared(self.cls) THEN Ret("AssertionError", self, w)
        ELSE IF Walrus(path) = BoolPath THEN Moved(Store__call__("DataBase", self.path, Walrus(path), w.fs))
        ELSE Update(self, kw, 1, w)

\* The loop of DataBase.delete: DataTable.delete(path / table_name) for every declared name.
RECURSIVE DeleteTables(_, _, _, _)
DeleteTables(cls, parts, i, f) ==
    IF i > Len(table_names(cls)) THEN f
    ELSE DeleteTables(cls, parts, i + 1,
                      Store_delete("DataTable", PathObj(Div(parts, table_names(cls)[i])), f).fs)

\* A variant of DataBase.delete without the assertion on cls.Tables; C33 rejects it.
DataBase_delete_unasserted(cls, path, w) ==
    IF ~PathCtorOk(path) THEN Ret("TypeError", NoDB, w)
    ELSE Ret("ok", NoDB, [w EXCEPT !.fs = DeleteTables(cls, path.parts, 1, w.fs)])

\* A variant of DataBase.delete that removes the folder and all it holds; C7 rejects it.
DataBase_delete_folder(cls, path, w) ==
    IF ~Declared(cls) THEN Ret("AssertionError", NoDB, w)
    ELSE IF ~PathCtorOk(path) THEN Ret("TypeError", NoDB, w)
    ELSE Ret("ok", NoDB, [w EXCEPT !.fs = Store_delete("DataBase", path, @).fs])

\* DataBase.delete(cls, path)
DataBase_delete(cls, path, w) ==
    IF ~Declared(cls) THEN Ret("AssertionError", NoDB, w)
    ELSE IF ~PathCtorOk(path) THEN Ret("TypeError", NoDB, w)
    ELSE Ret("ok", NoDB, [w EXCEPT !.fs = DeleteTables(cls, path.parts, 1, w.fs)])

(***************************************************************************)
(* Model                                                                   *)
(***************************************************************************)
\* The DataBase class nested in a Model class: MyModel(Model) declares the tables of
\* MyDataBase, after the template; a subclass that declares none, BareModel(Model),
\* inherits Model.DataBase, a subclass of DataBase with a Tables of its own.
DataBaseOf(cls) == IF cls = "MyModel" THEN "MyDataBase" ELSE "Model.DataBase"

\* cls.defaultMetaData, empty in ToyModel.
defaultMetaData(cls) == EmptyDict

\* Model._meta_in(path): Path(path) / 'meta'
meta_in(path) == PathObj(Div(path.parts, "meta"))

\* A Model instance: its class, _path, _meta and _database.
Mdl(live, cls, path, m, d) == [live |-> live, cls |-> cls, path |-> path, meta |-> m, data |-> d]

NoModel == Mdl(FALSE, "Model", <<>>, NoMeta, NoDB)

MRet(err, m, w) == [err |-> err, m |-> m, w |-> w]

\* A variant of Model.__init__ that constructs the DataBase before it reads the Meta;
\* C23 rejects it.
Model__init__database_first(cls, path, tables, w) ==
    LET GotMeta(p, d, m) ==
            IF m.err # "ok" THEN MRet(m.err, NoModel, m.w)
            ELSE MRet("ok", Mdl(TRUE, cls, p, m.h, d), m.w)
        GotData(p, d) ==
            IF d.err # "ok" THEN MRet(d.err, NoModel, d.w)
            ELSE GotMeta(p, d.db, Meta__init__(meta_in(path), EmptyDict, d.w))
        Made(made) ==
            IF made.err # "ok" THEN MRet(made.err, NoModel, [w EXCEPT !.fs = made.fs])
            ELSE GotData(made.path, DataBase__init__(DataBaseOf(cls), path, tables, [w EXCEPT !.fs = made.fs]))
    IN  Made(Store_create("Model", path, w.fs))

\* A variant of Model.__init__ that fills the tables it is not given with their defaults
\* instead of reading them; C25 rejects it.
Model__init__with_defaults(cls, path, tables, w) ==
    LET GotData(p, mh, d) ==
            IF d.err # "ok" THEN MRet(d.err, NoModel, d.w)
            ELSE MRet("ok", Mdl(TRUE, cls, p, mh, d.db), d.w)
        GotMeta(p, m) ==
            IF m.err # "ok" THEN MRet(m.err, NoModel, m.w)
            ELSE GotData(p, m.h, DataBase__init__(DataBaseOf(cls), path,
                                                  DictOr(table_defaults(DataBaseOf(cls)), tables), m.w))
        Made(made) ==
            IF made.err # "ok" THEN MRet(made.err, NoModel, [w EXCEPT !.fs = made.fs])
            ELSE GotMeta(made.path, Meta__init__(meta_in(path), EmptyDict, [w EXCEPT !.fs = made.fs]))
    IN  Made(Store_create("Model", path, w.fs))

\* Model.__init__(self, path, **data): the Meta is read, then the DataBase constructed; a
\* FileNotFoundError is printed and raised again.
Model__init__(cls, path, tables, w) ==
    LET GotData(p, mh, d) ==
            IF d.err # "ok" THEN MRet(d.err, NoModel, d.w)
            ELSE MRet("ok", Mdl(TRUE, cls, p, mh, d.db), d.w)
        GotMeta(p, m) ==
            IF m.err # "ok" THEN MRet(m.err, NoModel, m.w)
            ELSE GotData(p, m.h, DataBase__init__(DataBaseOf(cls), path, tables, m.w))
        Made(made) ==
            IF made.err # "ok" THEN MRet(made.err, NoModel, [w EXCEPT !.fs = made.fs])
            ELSE GotMeta(made.path, Meta__init__(meta_in(path), EmptyDict, [w EXCEPT !.fs = made.fs]))
    IN  Made(Store_create("Model", path, w.fs))

\* A variant of Model.create that constructs the DataBase first and writes the Meta
\* after it; C21 rejects it.
Model_create_meta_last(cls, path, meta_data, tables, w) ==
    LET Written(d, m) ==
            IF m.err # "ok" THEN MRet(m.err, NoModel, m.w)
            ELSE MRet("ok", Mdl(TRUE, cls, d.path, m.h, d), m.w)
        Stored(d) ==
            IF d.err # "ok" THEN MRet(d.err, NoModel, d.w)
            ELSE Written(d.db, Meta_create(meta_in(path), DictOr(defaultMetaData(cls), meta_data), d.w))
    IN  IF ~PathCtorOk(path) THEN MRet("TypeError", NoModel, w)
        ELSE Stored(DataBase__init__(DataBaseOf(cls), path,
                                     DictOr(table_defaults(DataBaseOf(cls)), tables), w))

\* Model.create(cls, path, meta, **data): Meta.create, then cls(path, **tables).
Model_create(cls, path, meta_data, tables, w) ==
    LET Created(m) ==
            IF m.err # "ok" THEN MRet(m.err, NoModel, m.w)
            ELSE IF ~Declared(DataBaseOf(cls)) THEN MRet("AssertionError", NoModel, m.w)
            ELSE Model__init__(cls, path, DictOr(table_defaults(DataBaseOf(cls)), tables), m.w)
    IN  IF ~PathCtorOk(path) THEN MRet("TypeError", NoModel, w)
        ELSE Created(Meta_create(meta_in(path), DictOr(defaultMetaData(cls), meta_data), w))

\* Model.copy(cls, src, dst): cls.create(dst, src.meta.data, **src.data.tables_as_dict());
\* rc declares tables_as_dict a property and calls its dict.
Model_copy(cls, src, dst, w) ==
    IF pkg = "rc" THEN MRet("TypeError", NoModel, w)
    ELSE Model_create(cls, dst, src.meta.data, tables_as_dict(src.data), w)

\* A variant of Model.delete that removes the folder and all it holds; C22 rejects it.
Model_delete_folder(cls, path, w) ==
    IF ~PathCtorOk(path) THEN MRet("TypeError", NoModel, w)
    ELSE MRet("ok", NoModel, [w EXCEPT !.fs = Store_delete("Model", path, @).fs])

\* Model.delete(cls, path): Meta.delete(cls._meta_in(path)), then cls.DataBase.delete(path).
Model_delete(cls, path, w) ==
    LET Deleted(d) == MRet(d.err, NoModel, d.w)
    IN  IF ~PathCtorOk(path) THEN MRet("TypeError", NoModel, w)
        ELSE Deleted(DataBase_delete(DataBaseOf(cls), path,
                                     [w EXCEPT !.fs = Store_delete("Meta", meta_in(path), @).fs]))

\* ToyModel.__call__(self, **options): self._database(**options); return self.
Model__call__(self, kw, w) ==
    LET Called(d) == MRet(d.err, [self EXCEPT !.data = d.db], d.w)
    IN  Called(DataBase__call__(self.data, NonePath, kw, w))

(***************************************************************************)
(* The inputs of the operations.                                           *)
(***************************************************************************)
db_folder == <<N("db", "")>>

alt_folder == <<N("alt", "")>>

new_folder == <<N("new", "")>>

\* The folder db.v1.2, whose name has two dots.
dotted_folder == <<<<"db", ".v1", ".2">>>>

\* The folder db.v1.3, whose name differs from db.v1.2 after the last dot only.
sibling_folder == <<<<"db", ".v1", ".3">>>>

PathArgs == {PathObj(db_folder), PathObj(alt_folder), StrPath(db_folder)}

X == Data("DataFrame", DataFrame(<<<<1, 2>>, <<3, 4>>>>))

Matrix == Data("ndarray", DataFrame(<<<<7>>>>))

Tuple == Data("tuple", DataFrame(<<<<1>>, <<2>>, <<3>>>>))

DataValues == {X, Matrix, Tuple}

\* Keyword arguments of a constructor, whose order does not matter.
CtorKwargs ==
    {<<>>, <<<<"A", X>>>>, <<<<"B", X>>>>, <<<<"A", X>>, <<"B", X>>>>,
     <<<<"A", Matrix>>>>, <<<<"A", X>>, <<"B", Matrix>>>>,
     <<<<"A", Tuple>>>>, <<<<"A", X>>, <<"B", Tuple>>>>}

\* The arguments of DataBase(...) and DataBase.create(...).
CtorArgs ==
    {<<"MyDataBase", PathObj(db_folder), kw>> : kw \in CtorKwargs}
        \cup {<<"MyDataBase", PathObj(alt_folder), kw>> : kw \in {<<>>, <<<<"A", X>>>>}}
        \cup {<<"MyDataBase", StrPath(db_folder), <<>>>>, <<"DataBase", PathObj(db_folder), <<>>>>}
        \cup {<<"MyDataBase", PathObj(dotted_folder), <<>>>>, <<"MyDataBase", PathObj(sibling_folder), <<>>>>}

\* The arguments of DataBase.copy(src, dst) and DataBase.delete(path).
ClassPathArgs ==
    {<<"MyDataBase", p>> : p \in PathArgs}
        \cup {<<"DataBase", PathObj(db_folder)>>, <<"MyDataBase", PathObj(sibling_folder)>>}

\* Keyword arguments of an update, in the caller's order; Z is no declared table.
CallKwargs ==
    {<<>>, <<<<"A", X>>>>, <<<<"B", X>>>>, <<<<"Z", X>>>>, <<<<"A", Matrix>>>>, <<<<"A", Tuple>>>>,
     <<<<"A", X>>, <<"B", X>>>>, <<<<"B", X>>, <<"A", X>>>>, <<<<"A", X>>, <<"B", Tuple>>>>,
     <<<<"A", X>>, <<"Z", X>>>>, <<<<"Z", X>>, <<"A", X>>>>}

\* The arguments of db(...): the path keyword and the tables.
CallArgs ==
    {<<NonePath, kw>> : kw \in CallKwargs}
        \cup {<<PathObj(alt_folder), kw>> : kw \in {<<>>, <<<<"A", X>>>>}}

\* The arguments of Store.delete, DataTable.delete and Meta.delete.
StoreDeleteArgs ==
    {<<"Store", PathObj(db_folder)>>, <<"Store", StrPath(db_folder)>>, <<"Store", PathObj(alt_folder)>>,
     <<"DataTable", PathObj(Div(db_folder, "A"))>>, <<"DataTable", PathObj(Div(db_folder, "B"))>>,
     <<"Meta", PathObj(Div(db_folder, "meta"))>>}

MetaValues == {EmptyDict, [K |-> Val("int", "2")], [K |-> Val("tuple", "1,2,3")]}

\* The data of an update of a Meta: a new key, a key of the record, a value that is no
\* JSON type, nothing.
MetaUpdates ==
    {[J |-> Val("int", "7")], [K |-> Val("int", "9")], [K |-> Val("tuple", "1,2,3")],
     [J |-> Val("set", "1,2")], EmptyDict}

\* The arguments of Meta(...) and Meta.create: the path, with the class's extension left out or with
\* another one, and the data.
MetaCreateArgs ==
    {<<PathObj(Div(db_folder, "meta")), data>> : data \in MetaValues}
        \cup {<<PathObj(db_folder \o <<N("meta", ".txt")>>), [K |-> Val("int", "2")]>>}

\* The arguments of DataTable.create, likewise.
DataTableCreateArgs ==
    {<<PathObj(Div(db_folder, "A")), data>> : data \in DataValues}
        \cup {<<PathObj(db_folder \o <<N("A", ".txt")>>), X>>}

\* The table of ToyDataBase: one row under two levels of column labels.
Toy ==
    Data("DataFrame", [columns |-> <<Lbl("object", "Category"), Lbl("object", "Input")>>,
                       sublevels |-> <<<<"int", "float">>>>,
                       index |-> RangeIndex(1),
                       values |-> <<<<0, 0>>>>])

\* A table of one row.
Row == Data("DataFrame", DataFrame(<<<<5, 6>>>>))

\* A table that is not square.
Wide == Data("DataFrame", DataFrame(<<<<1, 2, 3>>, <<4, 5, 6>>>>))

\* The arguments of DataTable(path, data, **options): data to store, or None to read; the
\* two-level table is stored and read with the options of ToyDataBase.
DataTableArgs ==
    {<<PathObj(Div(db_folder, "A")), data, EmptyDict>> : data \in {None, X, Row, Wide}}
        \cup {<<PathObj(Div(db_folder, "T")), Toy, [index |-> "True"]>>,
              <<PathObj(Div(db_folder, "T")), None, [header |-> "[0, 1]"]>>}

\* The arguments of table(data): a frame, a matrix, another path.
DataTableCallArgs ==
    {<<X, NonePath>>, <<Matrix, NonePath>>, <<Row, PathObj(Div(db_folder, "B"))>>}

\* The arguments of table.broadcast_to(target_shape, is_diagonal).
TargetShapes == {<<1, 2>>, <<2, 2>>, <<2, 3>>}

BroadcastArgs == TargetShapes \X BOOLEAN

\* The arguments of Model(path, **data): the folder and the tables supplied.
ModelNewArgs ==
    {<<"MyModel", PathObj(db_folder), kw>> : kw \in {<<>>, <<<<"A", X>>>>, <<<<"A", X>>, <<"B", X>>>>}}
        \cup {<<"MyModel", PathObj(alt_folder), <<>>>>, <<"MyModel", StrPath(db_folder), <<>>>>}

\* The arguments of Model.create(path, meta, **data).
ModelCreateArgs ==
    {<<"MyModel", PathObj(db_folder), md, kw>> :
        md \in {EmptyDict, [K |-> Val("int", "2")]}, kw \in {<<>>, <<<<"A", X>>>>}}
        \cup {<<"MyModel", PathObj(alt_folder), EmptyDict, <<>>>>,
              <<"MyModel", StrPath(db_folder), EmptyDict, <<>>>>,
              <<"BareModel", PathObj(db_folder), EmptyDict, <<>>>>}

\* The arguments of Model.copy(src, dst) and Model.delete(path).
ModelPathArgs == {<<"MyModel", PathObj(db_folder)>>, <<"MyModel", PathObj(alt_folder)>>}

\* The options of model(**options): tables of the DataBase by name; test.py passes a tuple.
ModelCallArgs == {<<>>, <<<<"A", X>>>>, <<<<"A", Tuple>>>>}

\* The number of file writes after which a Model.create is interrupted.
WritesDone == 0..2

\* The arguments of Store.copy(src, dst): folders and files, present or not.
StoreCopyArgs ==
    {<<"Store", PathObj(alt_folder), PathObj(db_folder)>>,
     <<"Store", PathObj(db_folder), PathObj(alt_folder)>>,
     <<"Store", PathObj(new_folder), PathObj(db_folder)>>,
     <<"Store", PathObj(alt_folder), PathObj(Div(db_folder, "D"))>>}

\* The record of the last operation: its arguments, its outcome, the files it read and
\* wrote, the path the instance it returned reports, and the filesystem and the instance
\* it started from.
Last(op, cls, path, kw, data, r, preFs, self) ==
    [op |-> op, cls |-> cls, path |-> path, kw |-> kw, meta |-> data, err |-> r.err,
     reads |-> r.w.reads, writes |-> r.w.writes, ret |-> r.db.path, pre |-> preFs, self |-> self]

\* A folder that exists before the program runs, holding a file that is no table.
Extraneous == Put(Put(EmptyFS, db_folder, DirEntry), db_folder \o <<N("C", ".txt")>>, RawFile)

\* A working directory in which names are taken by the other kind: folders where the
\* files db/A.csv and db/meta.json would be, and a file where the folder alt would be;
\* beside them a folder new that holds a file A.csv.
Clashing ==
    Put(Put(Put(Put(Put(Put(EmptyFS, db_folder, DirEntry),
                        db_folder \o <<N("A", ".csv")>>, DirEntry),
                    db_folder \o <<N("meta", ".json")>>, DirEntry),
                alt_folder, RawFile),
            new_folder, DirEntry),
        new_folder \o <<N("A", ".csv")>>, CsvFile(to_csv(X.pd, EmptyDict)))

\* The same folder after MyDataBase.create(db) has stored the default tables in it.
Populated == DataBase_create("MyDataBase", PathObj(db_folder), EmptyDict, World(Extraneous)).w.fs

Init ==
    /\ pkg \in {"rc", "romcomma"}
    /\ fs \in {EmptyFS, Extraneous, Populated, Clashing}
    /\ db = NoDB
    /\ meta = NoMeta
    /\ table = NoTable
    /\ model = NoModel
    /\ procs = NoProcs
    /\ last = Last("none", "DataBase", NonePath, <<>>, EmptyDict, Ret("ok", NoDB, World(EmptyFS)), EmptyFS, NoDB)
    /\ ops = 0

\* The state after an operation that returned r.
Done(r, newdb, l) ==
    /\ fs' = r.w.fs
    /\ db' = newdb
    /\ last' = l
    /\ ops' = ops + 1
    /\ UNCHANGED <<pkg, meta, table, model, procs>>

\* A constructor's result replaces the instance at hand if it returns one.
Instance(r) == IF r.err = "ok" THEN r.db ELSE db

\* db = cls(path, **kw)
New(cls, path, kw) ==
    /\ ops < MaxOps
    /\ LET Returned(r) == Done(r, Instance(r), Last("New", cls, path, kw, EmptyDict, r, fs, db))
       IN  Returned(DataBase__init__(cls, path, Dict(kw), World(fs)))

\* db = cls.create(path, **kw)
Create(cls, path, kw) ==
    /\ ops < MaxOps
    /\ LET Returned(r) == Done(r, Instance(r), Last("Create", cls, path, kw, EmptyDict, r, fs, db))
       IN  Returned(DataBase_create(cls, path, Dict(kw), World(fs)))

\* db = cls.copy(db, dst)
Copy(cls, dst) ==
    /\ ops < MaxOps
    /\ db.live
    /\ LET Returned(r) == Done(r, Instance(r), Last("Copy", cls, dst, <<>>, EmptyDict, r, fs, db))
       IN  Returned(DataBase_copy(cls, db, dst, World(fs)))

\* db(path=path, **kw): the instance is updated in place, also when the call raises.
Call(path, kw) ==
    /\ ops < MaxOps
    /\ db.live
    /\ LET Returned(r) == Done(r, r.db, Last("Call", db.cls, path, kw, EmptyDict, r, fs, db))
       IN  Returned(DataBase__call__(db, path, kw, World(fs)))

\* cls.delete(path)
Delete(cls, path) ==
    /\ ops < MaxOps
    /\ LET Returned(r) == Done(r, db, Last("Delete", cls, path, <<>>, EmptyDict, r, fs, db))
       IN  Returned(DataBase_delete(cls, path, World(fs)))

\* Store.delete(path), DataTable.delete(path), Meta.delete(path)
StoreDelete(cls, path) ==
    /\ ops < MaxOps
    /\ LET Returned(r) == Done(r, db, Last("StoreDelete", cls, path, <<>>, EmptyDict, r, fs, db))
           Deleted(d) == Returned(Ret(d.err, NoDB, [World(fs) EXCEPT !.fs = d.fs]))
       IN  Deleted(Store_delete(cls, path, fs))

\* Store.copy(src, dst); the source is recorded as the path and the destination as dst.
StoreCopy(cls, src, dst) ==
    /\ ops < MaxOps
    /\ LET Returned(r) == Done(r, db, Last("StoreCopy", cls, src, <<<<"dst", dst>>>>, EmptyDict, r, fs, db))
           Copied(c) == Returned(Ret(c.err, NoDB, [World(fs) EXCEPT !.fs = c.fs]))
       IN  Copied(Store_copy(cls, src, dst, fs))

\* The state after an operation on a Meta that returned m, leaving the handle h at hand.
MetaDone(op, path, data, m, h) ==
    /\ fs' = m.w.fs
    /\ meta' = h
    /\ last' = Last(op, "Meta", path, <<>>, data,
                    Ret(m.err, DB(FALSE, "Meta", m.h.path, NoTables), m.w), fs, meta)
    /\ ops' = ops + 1
    /\ UNCHANGED <<pkg, db, table, model, procs>>

\* meta = Meta(path, **data)
MetaNew(path, data) ==
    /\ ops < MaxOps
    /\ LET Returned(m) == MetaDone("MetaNew", path, data, m, IF m.err = "ok" THEN m.h ELSE meta)
       IN  Returned(Meta__init__(path, data, World(fs)))

\* meta = Meta.create(path, **data)
MetaCreate(path, data) ==
    /\ ops < MaxOps
    /\ LET Returned(m) == MetaDone("MetaCreate", path, data, m, IF m.err = "ok" THEN m.h ELSE meta)
       IN  Returned(Meta_create(path, data, World(fs)))

\* meta(**data): the handle is updated in place, also when the call raises.
MetaCall(data) ==
    /\ ops < MaxOps
    /\ meta # NoMeta
    /\ LET Returned(m) == MetaDone("MetaCall", NonePath, data, m, m.h)
       IN  Returned(Meta__call__(meta, NonePath, data, World(fs)))

\* The state after an operation on a DataTable that returned t, leaving the handle h at hand.
TableDone(op, path, kw, t, h) ==
    /\ fs' = t.w.fs
    /\ table' = h
    /\ last' = Last(op, "DataTable", path, kw, EmptyDict,
                    Ret(t.err, DB(FALSE, "DataTable", t.h.path, NoTables), t.w), fs, table)
    /\ ops' = ops + 1
    /\ UNCHANGED <<pkg, db, meta, model, procs>>

\* table = DataTable.create(path, data)
DataTableCreate(path, data) ==
    /\ ops < MaxOps
    /\ LET Returned(t) == TableDone("DataTableCreate", path, <<<<"data", data>>>>, t,
                                    IF t.err = "ok" THEN t.h ELSE table)
       IN  Returned(DataTable_create(path, data, EmptyDict, World(fs)))

\* table = DataTable(path, data, **options)
TableNew(path, data, options) ==
    /\ ops < MaxOps
    /\ LET Returned(t) == TableDone("TableNew", path, <<<<"data", data>>, <<"options", options>>>>, t,
                                    IF t.err = "ok" THEN t.h ELSE table)
       IN  Returned(DataTable__init__(path, data, options, World(fs)))

\* table(data, path)
TableCall(data, path) ==
    /\ ops < MaxOps
    /\ table # NoTable
    /\ LET Returned(t) == TableDone("TableCall", path, <<<<"data", data>>>>, t, t.h)
       IN  Returned(DataTable__call__(table, data, path, EmptyDict, World(fs)))

\* table.broadcast_to(target_shape, is_diagonal)
TableBroadcast(target_shape, is_diagonal) ==
    /\ ops < MaxOps
    /\ table # NoTable
    /\ LET Returned(t) == TableDone("TableBroadcast", PathObj(table.path),
                                    <<<<"target_shape", target_shape>>, <<"is_diagonal", is_diagonal>>>>, t, t.h)
       IN  Returned(DataTable_broadcast_to(table, target_shape, is_diagonal, World(fs)))

\* The state after an operation on a Model that returned r, leaving the instance h at hand.
ModelDone(op, cls, path, kw, meta_data, r, h) ==
    /\ fs' = r.w.fs
    /\ model' = h
    /\ last' = Last(op, cls, path, kw, meta_data,
                    Ret(r.err, DB(FALSE, cls, r.m.path, NoTables), r.w), fs, model)
    /\ ops' = ops + 1
    /\ UNCHANGED <<pkg, db, meta, table, procs>>

\* model = cls(path, **kw)
ModelNew(cls, path, kw) ==
    /\ ops < MaxOps
    /\ LET Returned(r) == ModelDone("ModelNew", cls, path, kw, EmptyDict, r,
                                    IF r.err = "ok" THEN r.m ELSE model)
       IN  Returned(Model__init__(cls, path, Dict(kw), World(fs)))

\* model = cls.create(path, meta, **kw)
ModelCreate(cls, path, meta_data, kw) ==
    /\ ops < MaxOps
    /\ LET Returned(r) == ModelDone("ModelCreate", cls, path, kw, meta_data, r,
                                    IF r.err = "ok" THEN r.m ELSE model)
       IN  Returned(Model_create(cls, path, meta_data, Dict(kw), World(fs)))

\* The files of a call that is interrupted after the first k of its file writes: those
\* files as the call leaves them, every other file as it was, the folders made.
Crashed(pre, final, writes, k) ==
    [p \in (DOMAIN pre) \cup {q \in DOMAIN final : final[q].kind = "dir"} \cup {writes[i] : i \in 1..k} |->
        IF (\E i \in 1..k : writes[i] = p) \/ p \notin DOMAIN pre THEN final[p] ELSE pre[p]]

\* cls.create(path, meta, **kw), the process ending after the first k file writes of it.
ModelCreateInterrupted(cls, path, meta_data, kw, k) ==
    /\ ops < MaxOps
    /\ \E r \in {Model_create(cls, path, meta_data, Dict(kw), World(fs))} :
          /\ k < Len(r.w.writes)
          /\ ModelDone("ModelCreateInterrupted", cls, path, kw, meta_data,
                       MRet("Interrupted", NoModel,
                            [fs |-> Crashed(fs, r.w.fs, r.w.writes, k),
                             reads |-> IF k = 0 THEN <<>> ELSE r.w.reads,
                             writes |-> SubSeq(r.w.writes, 1, k)]),
                       model)

\* model = cls.copy(model, dst)
ModelCopy(cls, dst) ==
    /\ ops < MaxOps
    /\ model.live
    /\ LET Returned(r) == ModelDone("ModelCopy", cls, dst, <<>>, EmptyDict, r,
                                    IF r.err = "ok" THEN r.m ELSE model)
       IN  Returned(Model_copy(cls, model, dst, World(fs)))

\* cls.delete(path)
ModelDelete(cls, path) ==
    /\ ops < MaxOps
    /\ LET Returned(r) == ModelDone("ModelDelete", cls, path, <<>>, EmptyDict, r, model)
       IN  Returned(Model_delete(cls, path, World(fs)))

\* model(**kw): the instance is updated in place, also when the call raises.
ModelCall(kw) ==
    /\ ops < MaxOps
    /\ model.live
    /\ LET Returned(r) == ModelDone("ModelCall", model.cls, PathObj(model.path), kw, EmptyDict, r, r.m)
       IN  Returned(Model__call__(model, kw, World(fs)))

Next ==
    \/ \E a \in CtorArgs : New(a[1], a[2], a[3])
    \/ \E a \in CtorArgs : Create(a[1], a[2], a[3])
    \/ \E a \in ClassPathArgs : Copy(a[1], a[2])
    \/ \E a \in CallArgs : Call(a[1], a[2])
    \/ \E a \in ClassPathArgs : Delete(a[1], a[2])
    \/ \E a \in StoreDeleteArgs : StoreDelete(a[1], a[2])
    \/ \E a \in StoreCopyArgs : StoreCopy(a[1], a[2], a[3])
    \/ \E a \in MetaCreateArgs : MetaNew(a[1], a[2])
    \/ \E a \in MetaCreateArgs : MetaCreate(a[1], a[2])
    \/ \E data \in MetaUpdates : MetaCall(data)
    \/ \E a \in DataTableCreateArgs : DataTableCreate(a[1], a[2])
    \/ \E a \in DataTableArgs : TableNew(a[1], a[2], a[3])
    \/ \E a \in DataTableCallArgs : TableCall(a[1], a[2])
    \/ \E a \in BroadcastArgs : TableBroadcast(a[1], a[2])

Spec == Init /\ [][Next]_vars

\* The operations of a Model, with the deletions that take files from under it.
ModelNext ==
    \/ \E a \in ModelNewArgs : ModelNew(a[1], a[2], a[3])
    \/ \E a \in ModelCreateArgs : ModelCreate(a[1], a[2], a[3], a[4])
    \/ \E a \in ModelCreateArgs, k \in WritesDone : ModelCreateInterrupted(a[1], a[2], a[3], a[4], k)
    \/ \E a \in ModelPathArgs : ModelCopy(a[1], a[2])
    \/ \E a \in ModelPathArgs : ModelDelete(a[1], a[2])
    \/ \E kw \in ModelCallArgs : ModelCall(kw)
    \/ \E a \in StoreDeleteArgs : StoreDelete(a[1], a[2])

ModelSpec == Init /\ [][ModelNext]_vars

(***************************************************************************)
(* Properties.                                                             *)
(***************************************************************************)
\* The file of table name under the folder a caller names.
TablePath(path, name) == with_suffix(Div(path.parts, name), ".csv")

\* The files of all declared tables under that folder.
TablePaths(cls, path) == {TablePath(path, table_names(cls)[i]) : i \in 1..Len(table_names(cls))}

Declares(cls, name) == \E i \in 1..Len(table_names(cls)) : table_names(cls)[i] = name

Texts(labels) == [i \in 1..Len(labels) |-> labels[i].text]

\* Two tables with the same cells, the same index and columns of the same names at every level.
SameTable(a, b) ==
    /\ a.values = b.values
    /\ a.index = b.index
    /\ Texts(a.columns) = Texts(b.columns)
    /\ a.sublevels = b.sublevels

\* The entry of a path in a filesystem, absent paths included.
EntryOf(f, p) == IF p \in DOMAIN f THEN f[p] ELSE [kind |-> "absent", csv |-> NoCsv, json |-> EmptyDict]

\* The two filesystems agree on path p.
Untouched(f, g, p) == EntryOf(f, p) = EntryOf(g, p)

\* C1: after create(path, **overrides) has returned, loading the DataBase at path
\* succeeds and every declared table equals its override if one was given and the
\* declared default otherwise.
C1_CreateThenLoad ==
    (last.op = "Create" /\ last.err = "ok") =>
        LET loaded == DataBase__init__(last.cls, last.path, EmptyDict, World(fs))
            want(n) == IF n \in KwNames(last.kw) THEN Dict(last.kw)[n].pd
                       ELSE table_defaults(last.cls)[n].pd
        IN  /\ loaded.err = "ok"
            /\ \A n \in {"A", "B"} : SameTable(loaded.db.tables[n].pd, want(n))

\* C1 witness: a create with an override for A and none for B has returned.
C1_Witness ==
    /\ last.op = "Create" /\ last.err = "ok"
    /\ KwNames(last.kw) = {"A"}
    /\ TablePaths(last.cls, last.path) \subseteq DOMAIN fs

\* The declared tables a constructor call did not supply, in declaration order.
Unsupplied(cls, kw) == SelectSeq(table_names(cls), LAMBDA n : n \notin KwNames(kw))

\* C2: a DataBase construction that returns has read exactly the files of the declared
\* tables the caller did not supply, once each; no construction reads a supplied table.
C2_LazyRead ==
    last.op = "New" =>
        /\ last.err = "ok" =>
              last.reads = [i \in 1..Len(Unsupplied(last.cls, last.kw)) |->
                               TablePath(last.path, Unsupplied(last.cls, last.kw)[i])]
        /\ \A i \in 1..Len(last.reads), n \in KwNames(last.kw) : last.reads[i] # TablePath(last.path, n)

\* C2 witness: a construction given A only has returned, having read one file.
C2_Witness ==
    /\ last.op = "New" /\ last.err = "ok"
    /\ KwNames(last.kw) = {"A"}
    /\ Len(last.reads) = 1

\* The names of the declared tables a call supplies.
Supplied(cls, kw) == {n \in KwNames(kw) : Declares(cls, n)}

InSeq(x, seq) == \E i \in 1..Len(seq) : seq[i] = x

\* C3 as stated: the file of a table supplied to the constructor is neither read nor
\* written by the construction.
C3_NoDiskIO ==
    last.op = "New" =>
        \A n \in Supplied(last.cls, last.kw) :
            /\ ~InSeq(TablePath(last.path, n), last.reads)
            /\ ~InSeq(TablePath(last.path, n), last.writes)

\* C3 amended: a construction that returns holds every supplied table verbatim in memory,
\* has not read that table's file, and has written the supplied value to it.
C3_AdoptWithoutRead ==
    (last.op = "New" /\ last.err = "ok") =>
        \A n \in Supplied(last.cls, last.kw) :
            /\ db.tables[n].pd = Dict(last.kw)[n].pd
            /\ ~InSeq(TablePath(last.path, n), last.reads)
            /\ InSeq(TablePath(last.path, n), last.writes)
            /\ EntryOf(fs, TablePath(last.path, n)) = CsvFile(to_csv(Dict(last.kw)[n].pd, EmptyDict))

\* C3 witness: a construction given a value for A has returned, over an older file of A.
C3_Witness ==
    /\ last.op = "New" /\ last.err = "ok"
    /\ "A" \in KwNames(last.kw)
    /\ TablePath(last.path, "A") \in DOMAIN last.pre
    /\ ~Untouched(last.pre, fs, TablePath(last.path, "A"))

\* C4 as stated: constructing a DataBase while the file of a declared table that the
\* caller did not supply is absent fails with a not-found error.
C4_MissingTableNotFound ==
    (/\ last.op = "New" /\ Declared(last.cls)
     /\ \E i \in 1..Len(Unsupplied(last.cls, last.kw)) :
            TablePath(last.path, Unsupplied(last.cls, last.kw)[i]) \notin DOMAIN last.pre)
        => last.err = "FileNotFoundError"

\* C5 as stated: an update-and-store call with a new path succeeds, the instance's path
\* is the new folder, and every declared table is written there, from the replacement
\* given in the call if there is one and from the current table otherwise.
C5_Relocate ==
    (last.op = "Call" /\ last.path.tag # "None") =>
        /\ last.err = "ok"
        /\ db.path = with_suffix(last.path.parts, "")
        /\ \A n \in {"A", "B"} :
              EntryOf(fs, TablePath(last.path, n)) =
                  CsvFile(to_csv(IF n \in KwNames(last.kw) THEN Dict(last.kw)[n].pd
                                 ELSE last.self.tables[n].pd, EmptyDict))

\* The files of the tables an update names.
NamedPaths == {last.self.tables[n].path : n \in Supplied(last.cls, last.kw)}

\* C6: an update-and-store call without a path writes only files of tables named in the
\* call; every other path of the filesystem and the instance's path are as before.
C6_UpdateInPlace ==
    (last.op = "Call" /\ last.path.tag = "None") =>
        /\ \A i \in 1..Len(last.writes) : last.writes[i] \in NamedPaths
        /\ \A p \in (DOMAIN fs) \cup (DOMAIN last.pre) : p \notin NamedPaths => Untouched(last.pre, fs, p)
        /\ db.path = last.self.path

\* C6 witness: an update naming A only has rewritten A's file and kept B's.
C6_Witness ==
    /\ last.op = "Call" /\ last.path.tag = "None" /\ last.err = "ok"
    /\ KwNames(last.kw) = {"A"}
    /\ ~Untouched(last.pre, fs, last.self.tables["A"].path)
    /\ last.self.tables["B"].path \in DOMAIN fs

\* A path at or beneath the path of a declared table's file.
InTable(cls, path, p) == \E t \in TablePaths(cls, path) : IsPrefix(t, p)

C8_Copy ==
    (last.op = "Copy" /\ Declared(last.cls)) =>
        /\ last.err = "ok"
        /\ db.path = with_suffix(last.path.parts, "")
        /\ \A n \in {"A", "B"} : db.tables[n].pd = last.self.tables[n].pd
        /\ \A p \in DOMAIN last.pre :
              p \notin TablePaths(last.cls, last.path) => Untouched(last.pre, fs, p)

\* C9: create is idempotent: once DataBase.create, Meta.create or DataTable.create has
\* run, running it again with the same path and data leaves every file as it is.
C9_CreateIdempotent ==
    /\ last.op = "Create" =>
          DataBase_create(last.cls, last.path, Dict(last.kw), World(fs)).w.fs = fs
    /\ last.op = "MetaCreate" =>
          Meta_create(last.path, last.meta, World(fs)).w.fs = fs
    /\ last.op = "DataTableCreate" =>
          DataTable_create(last.path, last.kw[1][2], EmptyDict, World(fs)).w.fs = fs

\* C9 witness: a DataBase.create has returned over files that held other content.
C9_Witness ==
    /\ last.op = "Create" /\ last.err = "ok"
    /\ \E p \in TablePaths(last.cls, last.path) : p \in DOMAIN last.pre /\ ~Untouched(last.pre, fs, p)

\* The normalized path of the last Store.delete.
Deleted == with_suffix(last.path.parts, ext[last.cls])

\* C10: Store.delete(path) raises nothing; afterwards neither the normalized path nor
\* anything beneath it exists; on an absent path it changes nothing; a second call
\* raises nothing and changes nothing.
C10_StoreDelete ==
    last.op = "StoreDelete" =>
        /\ last.err = "ok"
        /\ \A p \in DOMAIN fs : ~IsPrefix(Deleted, p)
        /\ Deleted \notin DOMAIN last.pre => fs = last.pre
        /\ Store_delete(last.cls, last.path, fs).err = "ok"
        /\ Store_delete(last.cls, last.path, fs).fs = fs

\* C10 witness: Store.delete has removed a folder that held files.
C10_Witness ==
    /\ last.op = "StoreDelete" /\ last.err = "ok"
    /\ is_dir(last.pre, Deleted)
    /\ \E p \in DOMAIN last.pre : p # Deleted /\ IsPrefix(Deleted, p)
    /\ Deleted \notin DOMAIN fs

\* The normalized path of the last create of a Meta, a DataTable or a DataBase.
Created == with_suffix(last.path.parts, ext[last.cls])

\* C11 as stated: create for a file-kind class over an existing folder fails with
\* FileExistsError.
C11_FileOverFolderExists ==
    (last.op \in {"MetaCreate", "DataTableCreate"} /\ is_dir(last.pre, Created))
        => last.err = "FileExistsError"

\* C11 amended: create for a folder-kind class whose normalized path is an existing file
\* fails with FileExistsError; create for a file-kind class whose normalized path is an
\* existing folder fails with IsADirectoryError; either leaves the filesystem as it was.
C11_KindMismatch ==
    /\ (last.op = "Create" /\ Declared(last.cls) /\ PathCtorOk(last.path)
            /\ is_file(last.pre, with_suffix(last.path.parts, "")))
          => (last.err = "FileExistsError" /\ fs = last.pre)
    /\ (last.op \in {"MetaCreate", "DataTableCreate"} /\ is_dir(last.pre, Created))
          => (last.err = "IsADirectoryError" /\ fs = last.pre)

\* C11 witness: Meta.create has run on a path whose .json name is a folder.
C11_Witness ==
    /\ last.op = "MetaCreate"
    /\ is_dir(last.pre, Created)
    /\ Created # <<>>
    /\ last.err # "ok"

\* The normalized source and destination of the last Store.copy, and where the copy of
\* a path beneath the source belongs.
CopySrc == with_suffix(last.path.parts, ext[last.cls])

CopyDst == with_suffix(last.kw[1][2].parts, ext[last.cls])

CopyOf(q) == CopyDst \o SubSeq(q, Len(CopySrc) + 1, Len(q))

\* C12 as stated: after Store.copy(src, dst) of a folder has returned, every file of src
\* is in dst under the same relative name with src's content, every other path keeps
\* its entry, and src is as before; with src absent the call fails with not-found.
C12_CopyMerges ==
    last.op = "StoreCopy" =>
        /\ ~Exists(last.pre, CopySrc) => (last.err = "FileNotFoundError" /\ fs = last.pre)
        /\ (is_dir(last.pre, CopySrc) /\ last.err = "ok") =>
              /\ \A q \in DOMAIN last.pre :
                    (IsPrefix(CopySrc, q) /\ is_file(last.pre, q)) => EntryOf(fs, CopyOf(q)) = last.pre[q]
              /\ \A p \in DOMAIN last.pre :
                    (\A q \in DOMAIN last.pre : IsPrefix(CopySrc, q) => CopyOf(q) # p)
                        => Untouched(last.pre, fs, p)

\* No file of the last copy's source meets a folder of its name in the destination.
NoKindClash ==
    ~\E q \in DOMAIN last.pre :
        IsPrefix(CopySrc, q) /\ q # CopySrc /\ is_file(last.pre, q) /\ is_dir(last.pre, CopyOf(q))

\* C12 where no file meets a folder of its name: the copy merges as stated.
C12_MergeWithoutKindClash ==
    last.op = "StoreCopy" =>
        /\ ~Exists(last.pre, CopySrc) => (last.err = "FileNotFoundError" /\ fs = last.pre)
        /\ (is_dir(last.pre, CopySrc) /\ last.err = "ok" /\ NoKindClash) =>
              /\ \A q \in DOMAIN last.pre :
                    (IsPrefix(CopySrc, q) /\ is_file(last.pre, q)) => EntryOf(fs, CopyOf(q)) = last.pre[q]
              /\ \A p \in DOMAIN last.pre :
                    (\A q \in DOMAIN last.pre : IsPrefix(CopySrc, q) => CopyOf(q) # p)
                        => Untouched(last.pre, fs, p)

\* The operations that return a Store instance.
Returning == {"New", "Create", "Copy", "Call", "MetaCreate", "DataTableCreate"}

\* The paths the instance at hand reports have their classes' extensions.
Canonical ==
    db.live => /\ suffix(db.path) = ext["DataBase"]
               /\ \A n \in DOMAIN db.tables : suffix(db.tables[n].path) = ext["DataTable"]

\* C13 as stated: the path an instance reports once its constructor or an
\* update-and-store call has returned has the extension of its class, and none for a
\* folder-kind class.
C13_CanonicalExtension ==
    /\ Canonical
    /\ (last.op \in Returning /\ last.err = "ok") =>
          suffix(last.ret) = ext[IF last.op \in {"MetaCreate", "DataTableCreate"} THEN last.cls ELSE "DataBase"]

\* C13 for paths whose last name has at most one dot: the reported path has the
\* extension of its class, whatever extension was supplied.
C13_CanonicalForOneDot ==
    (last.op \in Returning /\ last.err = "ok" /\ last.op # "Call" /\ Len(last.path.parts[Len(last.path.parts)]) <= 2) =>
        suffix(last.ret) = ext[IF last.op \in {"MetaCreate", "DataTableCreate"} THEN last.cls ELSE "DataBase"]

\* The file of the Meta the last operation named, and the record a file holds.
MetaFile == with_suffix(last.path.parts, ".json")

\* No file was written, replaced or removed since the last operation began.
NoFileWritten ==
    /\ last.writes = <<>>
    /\ \A p \in (DOMAIN fs) \cup (DOMAIN last.pre) :
          (is_file(fs, p) \/ is_file(last.pre, p)) => Untouched(last.pre, fs, p)

\* C14: Meta(path) with no data fails if the file is absent, returns the record of the
\* file when it returns, and writes no file; Meta(path, **data) that returns
\* holds exactly data and has written it as the whole content of the file.
C14_MetaInit ==
    last.op = "MetaNew" =>
        /\ last.meta = EmptyDict =>
              /\ NoFileWritten
              /\ ~Exists(last.pre, MetaFile) => last.err # "ok"
              /\ last.err = "ok" => (meta.data = load(last.pre[MetaFile].json) /\ last.reads = <<MetaFile>>)
        /\ (last.meta # EmptyDict /\ last.err = "ok") =>
              /\ meta.data = last.meta
              /\ EntryOf(fs, MetaFile) = JsonFile(dump(last.meta))
              /\ last.reads = <<>>

\* C14 witness: Meta(path, **data) has replaced a file that held another record.
C14_Witness ==
    /\ last.op = "MetaNew" /\ last.err = "ok" /\ last.meta # EmptyDict
    /\ is_file(last.pre, MetaFile)
    /\ ~Untouched(last.pre, fs, MetaFile)

\* The record a Meta update merges: the handle's record overridden key by key by the data.
Merged == DictOr(last.self.data, last.meta)

\* C15 as stated: when a Meta update-and-store call has returned, the handle holds the
\* merged record and the file holds exactly the handle's record; and whether or not the
\* call returned, the file holds what it held before or the merged record.
C15_MetaOverwrite ==
    last.op = "MetaCall" =>
        /\ last.err = "ok" =>
              (meta.data = Merged /\ EntryOf(fs, meta.path) = JsonFile(dump(meta.data)))
        /\ EntryOf(fs, last.self.path) \in {EntryOf(last.pre, last.self.path), JsonFile(dump(Merged))}

\* C15 for calls that return: the handle holds the merged record and the file holds
\* exactly the handle's record.
C15_AfterReturn ==
    (last.op = "MetaCall" /\ last.err = "ok") =>
        (meta.data = Merged /\ EntryOf(fs, meta.path) = JsonFile(dump(meta.data)))

\* The record Meta(path) reads in the current filesystem.
Loaded == Meta__init__(last.path, EmptyDict, World(fs))

\* C16 as stated: Meta.create(path, **r) followed by Meta(path) yields r, for every
\* record r, the empty one included.
C16_MetaRoundTripAny ==
    (last.op = "MetaCreate" /\ last.err = "ok") =>
        (Loaded.err = "ok" /\ Loaded.h.data = last.meta)

\* C16 amended: Meta.create(path, **r) followed by Meta(path) yields r as JSON holds it
\* (a tuple is read back as a list) if r is not empty, and the placeholder record
\* {'NotImplemented': 'in call to Meta.create()'} if r is empty.
C16_MetaRoundTrip ==
    (last.op = "MetaCreate" /\ last.err = "ok") =>
        /\ Loaded.err = "ok"
        /\ Loaded.h.data = IF last.meta = EmptyDict
                           THEN [NotImplemented |-> Val("str", "in call to Meta.create()")]
                           ELSE dump(last.meta)

\* C16 witness: Meta.create with the empty record has returned over a file that held a
\* record.
C16_Witness ==
    /\ last.op = "MetaCreate" /\ last.err = "ok"
    /\ last.meta = EmptyDict
    /\ is_file(last.pre, MetaFile)
    /\ "NotImplemented" \in DOMAIN fs[MetaFile].json

\* The tables a caller stores, and the write options they are stored with.
Frames == {X.pd, Row.pd, Toy.pd}

WriteOptions == {EmptyDict, [index |-> "True"]}

\* Read options that match the write options wo of the table d: the index column is read
\* exactly when it was written, and as many header lines as d has levels of columns.
Matching(ro, wo, d) ==
    /\ (DictGet(ro, "index_col", "None") = "0") <=> (DictGet(wo, "index", "True") = "True")
    /\ HeaderRows(ro) = 1 + Len(d.sublevels)

\* The constructor read the table from its file.
ReadBack == last.op = "TableNew" /\ last.err = "ok" /\ last.kw[1][2] = None

\* C17: a DataTable read from the file a table was written to, with read options matching
\* the write options, has the cells, the index and the columns, at every level, of the
\* table written.
C17_RoundTrip ==
    ReadBack =>
        \A d \in Frames, wo \in WriteOptions :
            (/\ Matching(table.read_options, wo, d)
             /\ EntryOf(last.pre, table.path) = CsvFile(to_csv(d, wo)))
                => SameTable(table.pd, d)

\* A table of two levels of columns, written by the constructor, was read back.
C17_Witness ==
    /\ ReadBack
    /\ Matching(table.read_options, [index |-> "True"], Toy.pd)
    /\ EntryOf(last.pre, table.path) = CsvFile(to_csv(Toy.pd, [index |-> "True"]))
    /\ table.pd.sublevels = <<<<"int", "float">>>>

\* A constructor, an update-and-store or a broadcast_to of the DataTable at hand returned.
TableReturned ==
    /\ last.op \in {"TableNew", "DataTableCreate", "TableCall", "TableBroadcast"}
    /\ last.err = "ok"

\* C18: when a constructor, an update-and-store or a broadcast_to of a DataTable has
\* returned, the file at the path of the DataTable is the text of its table in memory,
\* written with its write options.
C18_FileReflectsTable ==
    TableReturned => EntryOf(fs, table.path) = CsvFile(to_csv(table.pd, table.write_options))

\* broadcast_to returned, having changed the table in memory.
C18_Witness ==
    /\ TableReturned
    /\ last.op = "TableBroadcast"
    /\ table.pd # last.self.pd

\* The shape of a matrix, and of the table a csv text holds under its header lines and
\* beside its index column.
Shape(v) == <<Len(v), IF v = <<>> THEN 0 ELSE Len(v[1])>>

ShapeOnDisk(f, p, levels) ==
    IF EntryOf(f, p).kind = "csv" /\ Len(f[p].csv) >= levels
    THEN <<Len(f[p].csv) - levels, Len(f[p].csv[levels]) - 1>>
    ELSE <<0, 0>>

\* broadcast_to was called with this target shape on a table that can be broadcast to it
\* and whose file is in place.
Broadcasting(target_shape, is_diagonal) ==
    /\ last.op = "TableBroadcast"
    /\ is_file(last.pre, last.self.path)
    /\ last.kw[1][2] = target_shape
    /\ last.kw[2][2] = is_diagonal
    /\ BroadcastOk(np(last.self), target_shape[1], target_shape[2])

\* C19: broadcast_to(target_shape, is_diagonal=False) of a table that can be broadcast to
\* target_shape returns without error, and the table then has target_shape in memory and
\* on disk.
C19_BroadcastToShape ==
    \A target_shape \in TargetShapes :
        Broadcasting(target_shape, FALSE) =>
            /\ last.err = "ok"
            /\ Shape(np(table)) = target_shape
            /\ ShapeOnDisk(fs, table.path, 1 + Len(table.pd.sublevels)) = target_shape

\* broadcast_to(target_shape, is_diagonal=False) of a table that already has target_shape
\* returns without error and keeps that shape in memory and on disk.
C19_SameShape ==
    \A target_shape \in TargetShapes :
        (Broadcasting(target_shape, FALSE) /\ Shape(np(last.self)) = target_shape) =>
            /\ last.err = "ok"
            /\ Shape(np(table)) = target_shape
            /\ ShapeOnDisk(fs, table.path, 1 + Len(table.pd.sublevels)) = target_shape

\* The plain broadcast of the table broadcast_to was called on.
Plain(target_shape) == Broadcast(np(last.self), target_shape[1], target_shape[2])

\* C20: broadcast_to of a table that has target_shape zeroes the entries off the diagonal
\* when is_diagonal is set and target_shape is square, and otherwise leaves the plain
\* broadcast, of target_shape.
C20_DiagonalOnlyWhenSquare ==
    \A target_shape \in TargetShapes, is_diagonal \in BOOLEAN :
        (Broadcasting(target_shape, is_diagonal) /\ Shape(np(last.self)) = target_shape) =>
            /\ last.err = "ok"
            /\ np(table) = IF is_diagonal /\ target_shape[1] = target_shape[2]
                            THEN diag_diagonal(Plain(target_shape))
                            ELSE Plain(target_shape)

\* The same for square target shapes and for is_diagonal unset.
C20_SquareOrPlain ==
    \A target_shape \in TargetShapes, is_diagonal \in BOOLEAN :
        (/\ Broadcasting(target_shape, is_diagonal)
         /\ Shape(np(last.self)) = target_shape
         /\ (is_diagonal => target_shape[1] = target_shape[2])) =>
            /\ last.err = "ok"
            /\ np(table) = IF is_diagonal THEN diag_diagonal(Plain(target_shape)) ELSE Plain(target_shape)

\* The Meta file of the Model folder a caller names.
ModelMetaFile(path) == with_suffix(meta_in(path).parts, ".json")

\* Model.create, run to its end or interrupted.
Creating == last.op \in {"ModelCreate", "ModelCreateInterrupted"}

\* C21: at every point of a Model.create, the file writes made so far hold that of the
\* Meta file before that of any declared table.
C21_MetaFirst ==
    Creating =>
        \A i \in 1..Len(last.writes) :
            last.writes[i] \in TablePaths(DataBaseOf(last.cls), last.path)
                => \E j \in 1..(i - 1) : last.writes[j] = ModelMetaFile(last.path)

\* A Model.create has written the Meta file and both tables.
C21_Witness ==
    /\ last.op = "ModelCreate"
    /\ last.err = "ok"
    /\ Len(last.writes) = 3
    /\ \A t \in TablePaths(DataBaseOf(last.cls), last.path) : InSeq(t, last.writes)

\* The files of a Model in the folder a caller names: its Meta file and its tables.
ModelFiles(cls, path) == {ModelMetaFile(path)} \cup TablePaths(DataBaseOf(cls), path)

\* Model(path) loads from the files as they are.
Loads(cls, path) == Model__init__(cls, path, EmptyDict, World(fs)).err = "ok"

\* C22: after Model.create or Model.copy returns, the folder holds the Meta file and the
\* file of every declared table and Model(path) loads; after Model.delete returns, the
\* folder, if there was one, and the files in it that are not the Model's are as before,
\* and Model(path) fails.
C22_ValidFolder ==
    /\ (last.op \in {"ModelCreate", "ModelCopy"} /\ last.err = "ok") =>
            /\ \A p \in ModelFiles(last.cls, last.path) : is_file(fs, p)
            /\ Loads(last.cls, last.path)
    /\ (last.op = "ModelDelete" /\ last.err = "ok") =>
            /\ \A p \in DOMAIN last.pre :
                  (\A q \in ModelFiles(last.cls, last.path) : ~IsPrefix(q, p)) => Untouched(last.pre, fs, p)
            /\ ~Loads(last.cls, last.path)

\* Model.delete has removed the files of a Model and left a file that is none of them.
C22_Witness ==
    /\ last.op = "ModelDelete"
    /\ last.err = "ok"
    /\ \A p \in ModelFiles(last.cls, last.path) : is_file(last.pre, p)
    /\ is_file(fs, last.path.parts \o <<N("C", ".txt")>>)

\* Model(path, **data) was called on a folder without a Meta file.
LoadingWithoutMeta == last.op = "ModelNew" /\ ~Exists(last.pre, ModelMetaFile(last.path))

\* No file was read, written or changed by the last operation.
NoFileTouched ==
    /\ last.reads = <<>>
    /\ NoFileWritten

\* C23 as stated: when the Meta file is absent, Model(path, **data) fails with not-found
\* before any table file is read or written.
C23_MetaNotFoundFirst ==
    LoadingWithoutMeta => (last.err = "FileNotFoundError" /\ NoFileTouched)

\* C23: when the Meta file is absent, Model(path, **data) fails before any table file is
\* read or written, with not-found unless path is a file, where the folder cannot be made.
C23_MetaBeforeTables ==
    LoadingWithoutMeta =>
        /\ last.err # "ok"
        /\ NoFileTouched
        /\ is_file(last.pre, with_suffix(last.path.parts, "")) <=> last.err = "FileExistsError"
        /\ ~is_file(last.pre, with_suffix(last.path.parts, "")) <=> last.err = "FileNotFoundError"

\* The constructor failed on the missing Meta file with every table on disk and one
\* supplied as well.
C23_Witness ==
    /\ LoadingWithoutMeta
    /\ last.err = "FileNotFoundError"
    /\ last.kw # <<>>
    /\ \A t \in TablePaths(DataBaseOf(last.cls), last.path) : is_file(last.pre, t)

\* C24: when a call of a Model returns, it has written the Meta file of the Model and the
\* file of every table of its DataBase.
C24_CallRewritesAll ==
    (last.op = "ModelCall" /\ last.err = "ok") =>
        \A p \in ModelFiles(last.cls, last.path) : InSeq(p, last.writes)

\* When a call of a Model returns, it has written the files of the tables named in its
\* options and no other file.
C24_CallWritesNamed ==
    (last.op = "ModelCall" /\ last.err = "ok") =>
        last.writes = [i \in 1..Len(last.kw) |-> TablePath(last.path, last.kw[i][1])]

\* Model.create has been interrupted after some but not all of its file writes.
Interrupted == last.op = "ModelCreateInterrupted"

\* What Model(path) gives from the files as they are: "ok" or the error it raises.
LoadOf(cls, path, files) == Model__init__(cls, path, EmptyDict, World(files)).err

\* C25 as stated: when Model.create is interrupted after a proper prefix of its file writes on a
\* folder from which no Model loaded, a later Model(path) fails with not-found.
C25_InterruptedNeverLoads ==
    (Interrupted /\ LoadOf(last.cls, last.path, last.pre) # "ok") =>
        LoadOf(last.cls, last.path, fs) = "FileNotFoundError"

\* C25 amended: when Model.create is interrupted after a proper prefix of its file writes
\* on a folder that held neither the Meta file nor a table file of the Model, a later Model(path)
\* fails with not-found.
C25_InterruptedOnFreshNeverLoads ==
    (Interrupted /\ \A p \in ModelFiles(last.cls, last.path) : ~Exists(last.pre, p)) =>
        LoadOf(last.cls, last.path, fs) = "FileNotFoundError"

\* Model.create has been interrupted between its Meta write and its last table write, on
\* a folder that held none of the Model's files.
C25_Witness ==
    /\ Interrupted
    /\ \A p \in ModelFiles(last.cls, last.path) : ~Exists(last.pre, p)
    /\ Len(last.writes) >= 1
    /\ is_file(fs, ModelMetaFile(last.path))

(***************************************************************************)
(* Collect (user.results), as section 4.5 of the specification describes   *)
(* it: the repository holds its callers only.  A source is a folder with   *)
(* its tag record; a result table is a name with its parsing options.     *)
(***************************************************************************)
Source(folder, tags) == [folder |-> folder, tags |-> tags]

\* <folder>/<result-table-name>.<ext>
ResultPath(folder, name) == with_suffix(Div(folder, name), ".csv")

\* A fragment: the lines of a table that was read, its tag values put before every row
\* and its tag keys before every header line, as new leading levels; a table without
\* lines gives a fragment without lines.
Tagged(tags, csv, options) ==
    LET h == IF Len(csv) < HeaderRows(options) THEN Len(csv) ELSE HeaderRows(options)
    IN  [header |-> [l \in 1..h |-> [t \in 1..Len(tags) |-> tags[t][1]] \o csv[l]],
         rows |-> [r \in 1..(Len(csv) - h) |-> [t \in 1..Len(tags) |-> tags[t][2]] \o csv[r + h]]]

\* A variant of the reading of the sources that puts each fragment before the ones
\* accumulated so far; C27 rejects it.
RECURSIVE Accumulate_reversed(_, _, _, _, _, _, _)
Accumulate_reversed(name, options, sources, ignore, i, acc, w) ==
    IF i > Len(sources) THEN [err |-> "ok", missing |-> <<>>, fragments |-> acc, w |-> w]
    ELSE IF is_file(w.fs, ResultPath(sources[i].folder, name))
    THEN Accumulate_reversed(name, options, sources, ignore, i + 1,
                    <<Tagged(sources[i].tags, w.fs[ResultPath(sources[i].folder, name)].csv, options)>> \o acc,
                    [w EXCEPT !.reads = Append(@, ResultPath(sources[i].folder, name))])
    ELSE IF ignore THEN Accumulate_reversed(name, options, sources, ignore, i + 1, acc, w)
    ELSE [err |-> "FileNotFoundError", missing |-> sources[i].folder, fragments |-> acc, w |-> w]

\* For one result table, each source in turn: the table is read and its fragment
\* accumulated; when the file is absent the source is skipped if exceptions are ignored,
\* and otherwise the aggregation is aborted with a diagnostic naming the folder.
RECURSIVE Accumulate(_, _, _, _, _, _, _)
Accumulate(name, options, sources, ignore, i, acc, w) ==
    IF i > Len(sources) THEN [err |-> "ok", missing |-> <<>>, fragments |-> acc, w |-> w]
    ELSE IF is_file(w.fs, ResultPath(sources[i].folder, name))
    THEN Accumulate(name, options, sources, ignore, i + 1,
                    Append(acc, Tagged(sources[i].tags, w.fs[ResultPath(sources[i].folder, name)].csv, options)),
                    [w EXCEPT !.reads = Append(@, ResultPath(sources[i].folder, name))])
    ELSE IF ignore THEN Accumulate(name, options, sources, ignore, i + 1, acc, w)
    ELSE [err |-> "FileNotFoundError", missing |-> sources[i].folder, fragments |-> acc, w |-> w]

\* The accumulated fragments concatenated in their order under the header of the first.
RECURSIVE Rows(_, _)
Rows(fragments, i) == IF i > Len(fragments) THEN <<>> ELSE fragments[i].rows \o Rows(fragments, i + 1)

Concatenated(fragments) == IF fragments = <<>> THEN NoCsv ELSE fragments[1].header \o Rows(fragments, 1)

\* The merged table of one result name written into the destination folder, which is
\* made if it is absent.
MergedTable(dst, name, fragments, w) ==
    LET Made(made) ==
            IF made.err # "ok" THEN [err |-> made.err, missing |-> <<>>, w |-> w]
            ELSE [err |-> "ok", missing |-> <<>>,
                  w |-> [w EXCEPT !.fs = write_text(made.fs, ResultPath(dst, name), CsvFile(Concatenated(fragments))),
                                  !.writes = Append(@, ResultPath(dst, name))]]
    IN  Made(mkdir(w.fs, dst))

\* A variant of the aggregation that writes what was accumulated of a result table
\* before the diagnostic is raised; C26 rejects it.
RECURSIVE Collect_from_folders_partial(_, _, _, _, _, _)
Collect_from_folders_partial(tables, sources, ignore, dst, n, w) ==
    LET Written(m, err, missing) ==
            IF m.err # "ok" THEN m
            ELSE IF err # "ok" THEN [err |-> err, missing |-> missing, w |-> m.w]
            ELSE Collect_from_folders_partial(tables, sources, ignore, dst, n + 1, m.w)
        Read(got) == Written(MergedTable(dst, tables[n][1], got.fragments, got.w), got.err, got.missing)
    IN  IF n > Len(tables) THEN [err |-> "ok", missing |-> <<>>, w |-> w]
        ELSE Read(Accumulate(tables[n][1], tables[n][2], sources, ignore, 1, <<>>, w))

\* Collect(tables, sources, ignore).from_folders(dst): for each result table, the sources
\* are read and, after all of them, the merged table is written.
RECURSIVE Collect_from_folders(_, _, _, _, _, _)
Collect_from_folders(tables, sources, ignore, dst, n, w) ==
    LET Written(m) ==
            IF m.err # "ok" THEN m
            ELSE Collect_from_folders(tables, sources, ignore, dst, n + 1, m.w)
        Read(got) ==
            IF got.err # "ok" THEN [err |-> got.err, missing |-> got.missing, w |-> got.w]
            ELSE Written(MergedTable(dst, tables[n][1], got.fragments, got.w))
    IN  IF n > Len(tables) THEN [err |-> "ok", missing |-> <<>>, w |-> w]
        ELSE Read(Accumulate(tables[n][1], tables[n][2], sources, ignore, 1, <<>>, w))

\* The folders of a sweep point: the repository, two models in it, the destination of
\* their results, and the destination of the results of the whole root.
repo_folder == <<N("repo", "")>>

gpr0 == repo_folder \o <<N("gpr", ".0")>>

gpr1 == repo_folder \o <<N("gpr", ".1")>>

repo_gpr == repo_folder \o <<N("gpr", "")>>

root_gpr == <<N("gpr", "")>>

\* What a model folder can hold before the aggregation: nothing (the folder is absent),
\* no result table, or some of the result tables S and V.
Held == {"absent", "empty", "S", "V", "SV"}

ModelFolder(f, folder, held, s, v) ==
    LET made == IF held = "absent" THEN f ELSE Put(f, folder, DirEntry)
        withS == IF held \in {"S", "SV"}
                 THEN Put(made, ResultPath(folder, "S"), CsvFile(to_csv(DataFrame(s), EmptyDict))) ELSE made
    IN  IF held \in {"V", "SV"}
        THEN Put(withS, ResultPath(folder, "V"), CsvFile(to_csv(DataFrame(v), EmptyDict))) ELSE withS

CollectWorlds ==
    {ModelFolder(ModelFolder(Put(EmptyFS, repo_folder, DirEntry), gpr0, h0, <<<<1>>, <<2>>>>, <<<<4>>>>),
                 gpr1, h1, <<<<3>>>>, <<<<5>>, <<6>>>>) : h0 \in Held, h1 \in Held}

\* The arguments of the aggregations: the result tables, the sources with their tags in
\* the order of the mapping, and the destination.
CollectTables == {<<<<"S", EmptyDict>>>>, <<<<"S", EmptyDict>>, <<"V", EmptyDict>>>>,
                  <<<<"V", EmptyDict>>, <<"S", EmptyDict>>>>}

ModelSources ==
    LET m0 == Source(gpr0, <<<<"model", "gpr.0">>>>)
        m1 == Source(gpr1, <<<<"model", "gpr.1">>>>)
    IN  {<<m0, m1>>, <<m1, m0>>, <<m0>>}

CollectArgs ==
    {<<t, srcs, repo_gpr>> : t \in CollectTables, srcs \in ModelSources}
        \cup {<<t, <<Source(repo_gpr, <<<<"M", "5">>, <<"noise", "0">>>>)>>, root_gpr>> : t \in CollectTables}

CollectInit ==
    /\ pkg = "romcomma"
    /\ fs \in CollectWorlds
    /\ db = NoDB
    /\ meta = NoMeta
    /\ table = NoTable
    /\ model = NoModel
    /\ procs = NoProcs
    /\ last = [op |-> "none", err |-> "ok", missing |-> <<>>, tables |-> <<>>, sources |-> <<>>,
               ignore |-> FALSE, dst |-> <<>>, reads |-> <<>>, writes |-> <<>>, pre |-> EmptyFS]
    /\ ops = 0

\* Collect(tables, sources, ignore).from_folders(dst)
CollectFromFolders(tables, sources, ignore, dst) ==
    /\ ops < MaxOps
    /\ LET Returned(r) ==
               /\ fs' = r.w.fs
               /\ last' = [op |-> "Collect", err |-> r.err, missing |-> r.missing, tables |-> tables,
                           sources |-> sources, ignore |-> ignore, dst |-> dst,
                           reads |-> r.w.reads, writes |-> r.w.writes, pre |-> fs]
       IN  Returned(Collect_from_folders(tables, sources, ignore, dst, 1, World(fs)))
    /\ ops' = ops + 1
    /\ UNCHANGED <<pkg, db, meta, table, model, procs>>

CollectNext == \E a \in CollectArgs, ignore \in BOOLEAN : CollectFromFolders(a[1], a[2], ignore, a[3])

CollectSpec == CollectInit /\ [][CollectNext]_vars


(***************************************************************************)
(* Repository and Fold (section 4.4 of the specification; the repository   *)
(* holds their callers only).  into_K_folds divides the rows of the sample  *)
(* into |K| contiguous groups, one per fold, and stores with each fold the  *)
(* normalization computed from the rows of that fold.  The further fold,    *)
(* which is never used for training, is stored without training rows.       *)
(***************************************************************************)
Abs(K) == IF K < 0 THEN 0 - K ELSE K

\* A variant of the sign convention in which a negative K adds the further fold; C28
\* rejects it.
HasImproperFold_negative(K) == K < 0

\* benchmark_script.py --folds: "The number of k-folds to use (negative to omit improper
\* fold)"; tests.py visits Fold(store, k) for k in range(store.K + 1).
HasImproperFold(K) == K > 0

\* The number of folds into_K_folds(K) makes.
FoldCount(K) == Abs(K) + (IF HasImproperFold(K) THEN 1 ELSE 0)

\* The folders of the folds: <repository>/fold.<k>
fold_folder(repo, k) == repo \o <<N("fold", "." \o str(k))>>

\* The rows of a stored sample, read back from its lines.
RowsOf(csv) == [r \in 1..(Len(csv) - 1) |-> [c \in 1..(Len(csv[r + 1]) - 1) |-> int(csv[r + 1][c + 1])]]

\* Group g of G contiguous groups of the rows.
Group(rows, G, g) == SubSeq(rows, (g * Len(rows)) \div G + 1, ((g + 1) * Len(rows)) \div G)

\* The normalization of rows: the least and the greatest value of every column.
Normalization(rows) ==
    IF rows = <<>> THEN <<>>
    ELSE <<[c \in 1..Len(rows[1]) |-> CHOOSE v \in {rows[r][c] : r \in 1..Len(rows)} :
                                        \A r \in 1..Len(rows) : v <= rows[r][c]],
           [c \in 1..Len(rows[1]) |-> CHOOSE v \in {rows[r][c] : r \in 1..Len(rows)} :
                                        \A r \in 1..Len(rows) : v >= rows[r][c]]>>

\* Fold k stored: its rows and the normalization of these rows.
Fold_create(repo, k, rows, normalized_from, w) ==
    LET data == ResultPath(fold_folder(repo, k), "data")
        normalization == ResultPath(fold_folder(repo, k), "normalization")
        f1 == Put(w.fs, fold_folder(repo, k), DirEntry)
        f2 == write_text(f1, data, CsvFile(to_csv(DataFrame(rows), EmptyDict)))
        f3 == write_text(f2, normalization, CsvFile(to_csv(DataFrame(Normalization(normalized_from)), EmptyDict)))
    IN  [w EXCEPT !.fs = f3, !.writes = @ \o <<data, normalization>>]

\* A variant of the folding that computes every normalization from the whole sample;
\* C29 rejects it.
RECURSIVE MakeFolds_global(_, _, _, _, _)
MakeFolds_global(repo, rows, G, k, w) ==
    IF k >= G THEN w
    ELSE MakeFolds_global(repo, rows, G, k + 1, Fold_create(repo, k, Group(rows, G, k), rows, w))

\* The folds 0 .. G-1 made in turn, each from its group of the rows.
RECURSIVE MakeFolds(_, _, _, _, _)
MakeFolds(repo, rows, G, k, w) ==
    IF k >= G THEN w
    ELSE MakeFolds(repo, rows, G, k + 1, Fold_create(repo, k, Group(rows, G, k), Group(rows, G, k), w))

\* repo.into_K_folds(K): |K| folds, and one further fold when K is positive.
into_K_folds(repo, K, w) ==
    LET rows == RowsOf(w.fs[ResultPath(repo, "data")].csv)
        Improper(made) == IF HasImproperFold(K) THEN Fold_create(repo, Abs(K), <<>>, <<>>, made) ELSE made
    IN  IF Abs(K) < 1 \/ Abs(K) > Len(rows) THEN [err |-> "IndexError", K |-> 0, w |-> w]
        ELSE [err |-> "ok", K |-> Abs(K),
              w |-> Improper(MakeFolds(repo, rows, Abs(K), 0,
                                       [w EXCEPT !.reads = Append(@, ResultPath(repo, "data"))]))]

\* The samples, of four to six rows of two columns, and the values of K.
Samples == {<<<<1, 2>>, <<3, 4>>, <<5, 6>>, <<7, 8>>>>,
            <<<<4, 4>>, <<2, 6>>, <<8, 0>>, <<1, 3>>, <<5, 5>>>>,
            <<<<0, 9>>, <<1, 8>>, <<2, 7>>, <<3, 6>>, <<4, 5>>, <<5, 4>>>>}

MaxFolds == 3

Ks == ((0 - MaxFolds)..MaxFolds) \ {0}

FoldInit ==
    /\ pkg = "romcomma"
    /\ \E rows \in Samples :
          fs = Put(Put(EmptyFS, repo_folder, DirEntry), ResultPath(repo_folder, "data"),
                   CsvFile(to_csv(DataFrame(rows), EmptyDict)))
    /\ db = NoDB
    /\ meta = NoMeta
    /\ table = NoTable
    /\ model = NoModel
    /\ procs = NoProcs
    /\ last = [op |-> "none", err |-> "ok", K |-> 0, arg |-> 0, changed |-> {}, reads |-> <<>>, writes |-> <<>>,
               pre |-> EmptyFS, before |-> EmptyFS]
    /\ ops = 0

FoldDone(op, K, changed, before, r) ==
    /\ fs' = r.w.fs
    /\ last' = [op |-> op, err |-> r.err, K |-> r.K, arg |-> K, changed |-> changed,
                reads |-> r.w.reads, writes |-> r.w.writes, pre |-> fs, before |-> before]
    /\ ops' = ops + 1
    /\ UNCHANGED <<pkg, db, meta, table, model, procs>>

\* repo.into_K_folds(K)
IntoKFolds(K) ==
    /\ ops < MaxOps
    /\ LET Returned(r) == FoldDone("into_K_folds", K, {}, fs, r)
       IN  Returned(into_K_folds(repo_folder, K, World(fs)))

\* The rows of the sample in which the rows numbered in changed are replaced: every
\* value v by 9 - v.
Changed(rows, changed) ==
    [r \in 1..Len(rows) |-> IF r \in changed THEN [c \in 1..Len(rows[r]) |-> 9 - rows[r][c]] ELSE rows[r]]

\* The numbers of the rows of fold j of the last folding.
RowsOfFold(rows, K, j) ==
    LET G == Abs(K)
    IN  {r \in 1..Len(rows) : (j * Len(rows)) \div G < r /\ r <= ((j + 1) * Len(rows)) \div G}

\* The data of fold j are changed in the sample, which is stored and folded again with
\* the same K (tests.py: store._data.df = store._data.df * 5; store._data.write();
\* fold_and_rotate(store, K, rotation)).
Refold(j) ==
    /\ ops < MaxOps
    /\ last.op \in {"into_K_folds", "refold"} /\ last.err = "ok"
    /\ j < Abs(last.arg)
    /\ LET rows == RowsOf(fs[ResultPath(repo_folder, "data")].csv)
           changed == RowsOfFold(rows, last.arg, j)
           stored == write_text(fs, ResultPath(repo_folder, "data"),
                                CsvFile(to_csv(DataFrame(Changed(rows, changed)), EmptyDict)))
           Returned(r) == FoldDone("refold", last.arg, changed, fs, r)
       IN  Returned(into_K_folds(repo_folder, last.arg, World(stored)))

FoldNext ==
    \/ \E K \in Ks : IntoKFolds(K)
    \/ \E j \in 0..(MaxFolds - 1) : Refold(j)

FoldSpec == FoldInit /\ [][FoldNext]_vars

\* An aggregation has ended, by returning or by raising.
Collected == last.op = "Collect"

\* Source i lacked result table n when the aggregation began.
Lacking(n, i) == ~is_file(last.pre, ResultPath(last.sources[i].folder, last.tables[n][1]))

\* The first result table that some source lacked, and the first source that lacked it.
FirstTableLacking == CHOOSE n \in 1..Len(last.tables) :
    /\ \E i \in 1..Len(last.sources) : Lacking(n, i)
    /\ \A m \in 1..(n - 1) : \A i \in 1..Len(last.sources) : ~Lacking(m, i)

FirstSourceLacking == CHOOSE i \in 1..Len(last.sources) :
    Lacking(FirstTableLacking, i) /\ \A j \in 1..(i - 1) : ~Lacking(FirstTableLacking, j)

\* C26: when a source folder lacks a requested table and exceptions are not ignored, the
\* aggregation raises a diagnostic naming the first such folder, has read no source after
\* it, and has written no merged table for that result name or for a later one.
C26_AbortsNamingFolder ==
    (Collected /\ ~last.ignore /\ \E n \in 1..Len(last.tables), i \in 1..Len(last.sources) : Lacking(n, i)) =>
        /\ last.err = "FileNotFoundError"
        /\ last.missing = last.sources[FirstSourceLacking].folder
        /\ \A j \in FirstSourceLacking..Len(last.sources) :
              ~InSeq(ResultPath(last.sources[j].folder, last.tables[FirstTableLacking][1]), last.reads)
        /\ \A m \in FirstTableLacking..Len(last.tables) :
              /\ ~InSeq(ResultPath(last.dst, last.tables[m][1]), last.writes)
              /\ Untouched(last.pre, fs, ResultPath(last.dst, last.tables[m][1]))

\* An aggregation has been aborted at its second source, after it read the first.
C26_Witness ==
    /\ Collected /\ ~last.ignore
    /\ last.err = "FileNotFoundError"
    /\ Len(last.sources) = 2
    /\ last.missing = last.sources[2].folder
    /\ last.reads # <<>>

\* The sources that held the result table when the aggregation began, in the order of
\* the source mapping.
HoldersOf(name) == SelectSeq(last.sources, LAMBDA src : is_file(last.pre, ResultPath(src.folder, name)))

\* The lines below the header of the table a source held, each behind the tag values of
\* the source.
RowsFrom(src, name) ==
    LET csv == last.pre[ResultPath(src.folder, name)].csv
    IN  [r \in 1..(Len(csv) - 1) |-> [t \in 1..Len(src.tags) |-> src.tags[t][2]] \o csv[r + 1]]

\* Line r of the merged table is line k of the rows of holder h, where the holders
\* before h have r - k rows between them.
RECURSIVE RowsBefore(_, _)
RowsBefore(name, h) ==
    IF h = 1 THEN 0 ELSE RowsBefore(name, h - 1) + Len(RowsFrom(HoldersOf(name)[h - 1], name))

MergedRows(name) ==
    LET csv == fs[ResultPath(last.dst, name)].csv
    IN  IF csv = NoCsv THEN <<>> ELSE Tail(csv)

\* C27: with exceptions ignored the aggregation succeeds and each result name has one
\* merged table, which holds the rows of the sources that held the table, tagged and in
\* the order of the source mapping, and no other row.
C27_MergesHolders ==
    (Collected /\ last.ignore) =>
        /\ last.err = "ok"
        /\ \A n \in 1..Len(last.tables) :
              LET name == last.tables[n][1]
                  holders == HoldersOf(name)
              IN  /\ is_file(fs, ResultPath(last.dst, name))
                  /\ Len(SelectSeq(last.writes, LAMBDA p : p = ResultPath(last.dst, name))) = 1
                  /\ holders = <<>> => fs[ResultPath(last.dst, name)].csv = NoCsv
                  /\ holders # <<>> =>
                        /\ Len(MergedRows(name)) = RowsBefore(name, Len(holders) + 1)
                        /\ \A h \in 1..Len(holders) : \A k \in 1..Len(RowsFrom(holders[h], name)) :
                              MergedRows(name)[RowsBefore(name, h) + k] = RowsFrom(holders[h], name)[k]

\* An aggregation that ignores exceptions has merged the rows of two sources.
C27_Witness ==
    /\ Collected /\ last.ignore /\ last.err = "ok"
    /\ Len(last.tables) = 2
    /\ Len(HoldersOf(last.tables[1][1])) = 2
    /\ Len(MergedRows(last.tables[1][1])) = 3

\* An aggregation that ignores exceptions has left out a source that lacked the table.
C27_Omitted ==
    /\ Collected /\ last.ignore /\ last.err = "ok"
    /\ Len(last.sources) = 2
    /\ Len(HoldersOf(last.tables[1][1])) = 1

\* into_K_folds has returned.
Folded == last.op \in {"into_K_folds", "refold"} /\ last.err = "ok"

\* The call made fold k.
Made(k) == InSeq(ResultPath(fold_folder(repo_folder, k), "data"), last.writes)

FoldRows(files, k) == RowsOf(files[ResultPath(fold_folder(repo_folder, k), "data")].csv)

\* The rows of the folds i .. n-1, fold after fold.
RECURSIVE RowsOfFolds(_, _)
RowsOfFolds(i, n) == IF i >= n THEN <<>> ELSE FoldRows(fs, i) \o RowsOfFolds(i + 1, n)

SampleRows == RowsOf(fs[ResultPath(repo_folder, "data")].csv)

\* The rows of the further fold are in none of the folds 0 .. |K|-1.
HeldOut == \A r \in 1..Len(FoldRows(fs, last.K)) : ~InSeq(FoldRows(fs, last.K)[r], RowsOfFolds(0, last.K))

NormalizationOf(files, k) == files[ResultPath(fold_folder(repo_folder, k), "normalization")].csv

\* The sample has been folded again after the rows of one fold were changed in it.
Refolded == last.op = "refold" /\ last.err = "ok"

\* C29: when the rows of one fold are changed in the sample and the sample is folded
\* again, the normalization stored for every other fold is what it was.
C29_NormalizationIsLocal ==
    Refolded =>
        \A k \in 0..(FoldCount(last.arg) - 1) :
            FoldRows(fs, k) = FoldRows(last.before, k) =>
                NormalizationOf(fs, k) = NormalizationOf(last.before, k)

\* A sample of two folds or more has been folded again, and the normalization of the
\* fold whose rows were changed is no longer what it was.
C29_Witness ==
    /\ Refolded
    /\ FoldCount(last.arg) >= 2
    /\ \E j \in 0..(FoldCount(last.arg) - 1) :
          /\ NormalizationOf(fs, j) # NormalizationOf(last.before, j)
          /\ \E k \in 0..(FoldCount(last.arg) - 1) : k # j /\ FoldRows(fs, k) = FoldRows(last.before, k)

\* db(name=value, ...) has returned.
Updated == last.op = "Call" /\ last.err = "ok"

\* Table name of the DataBase holds the cells of value in memory, and its file is the
\* text of the table in memory.
Holds(name, value) ==
    /\ db.tables[name].pd.values = value.pd.values
    /\ is_file(fs, db.tables[name].path)
    /\ fs[db.tables[name].path].csv = to_csv(db.tables[name].pd, db.tables[name].write_options)

\* C30: after db(name=value) returns, every declared table named in the call holds its
\* value in memory and in its file.
C30_TableEqualsValue ==
    Updated =>
        \A i \in 1..Len(last.kw) :
            last.kw[i][1] \in DOMAIN db.tables => Holds(last.kw[i][1], last.kw[i][2])

\* After db(name=value) returns, every declared table named in the call with a DataFrame
\* holds it in memory and in its file.
C30_FrameEqualsValue ==
    Updated =>
        \A i \in 1..Len(last.kw) :
            (last.kw[i][1] \in DOMAIN db.tables /\ last.kw[i][2].kind = "DataFrame") =>
                Holds(last.kw[i][1], last.kw[i][2])

\* After db(name=value) returns with an array that has the shape of the table, the table
\* holds the array in memory and in its file.
C30_ArrayOfSameShapeEqualsValue ==
    Updated =>
        \A i \in 1..Len(last.kw) :
            (/\ last.kw[i][1] \in DOMAIN db.tables
             /\ last.kw[i][2].kind = "ndarray"
             /\ Shape(last.self.tables[last.kw[i][1]].pd.values) = Shape(last.kw[i][2].pd.values)) =>
                Holds(last.kw[i][1], last.kw[i][2])

\* After db(name=value) of romcomma returns for a tuple, the table is what it was.
C30_TupleDropped ==
    (Updated /\ pkg = "romcomma") =>
        \A i \in 1..Len(last.kw) :
            (last.kw[i][1] \in DOMAIN db.tables /\ last.kw[i][2].kind = "tuple") =>
                db.tables[last.kw[i][1]].pd = last.self.tables[last.kw[i][1]].pd

(***************************************************************************)
(* A process that ends in the middle of a DataBase write.  Every table is  *)
(* stored by its own to_csv, one after another, and nothing is undone.     *)
(***************************************************************************)
\* What an interrupted call leaves: the files as they are after its first k writes; the
\* process and its instance are gone.
Interruption(op, cls, path, kw, r, k) ==
    LET Left(crashed) == Done(crashed, NoDB, Last(op, cls, path, kw, EmptyDict, crashed, fs, db))
    IN  /\ k < Len(r.w.writes)
        /\ Left(Ret("Interrupted", NoDB,
                    [fs |-> Crashed(fs, r.w.fs, r.w.writes, k), reads |-> r.w.reads,
                     writes |-> SubSeq(r.w.writes, 1, k)]))

\* cls.create(path, **kw), the process ending after the first k table writes of it.
CreateInterrupted(cls, path, kw, k) ==
    /\ ops < MaxOps
    /\ LET Returned(r) == Interruption("CreateInterrupted", cls, path, kw, r, k)
       IN  Returned(DataBase_create(cls, path, Dict(kw), World(fs)))

\* db(**kw), the process ending after the first k table writes of it.
CallInterrupted(kw, k) ==
    /\ ops < MaxOps
    /\ db.live
    /\ LET Returned(r) == Interruption("CallInterrupted", db.cls, NonePath, kw, r, k)
       IN  Returned(DataBase__call__(db, NonePath, kw, World(fs)))

InterruptNext ==
    \/ \E a \in CtorArgs : New(a[1], a[2], a[3])
    \/ \E a \in CtorArgs : Create(a[1], a[2], a[3])
    \/ \E a \in CallArgs : Call(a[1], a[2])
    \/ \E a \in CtorArgs, k \in WritesDone : CreateInterrupted(a[1], a[2], a[3], k)
    \/ \E kw \in CallKwargs, k \in WritesDone : CallInterrupted(kw, k)

InterruptSpec == Init /\ [][InterruptNext]_vars

\* The names of the tables an interrupted call was to write, in the order of its writes:
\* the declared names for create, the names of the call for an update.
NamesToWrite ==
    IF last.op = "CreateInterrupted" THEN table_names(last.cls)
    ELSE [i \in 1..Len(last.kw) |-> last.kw[i][1]]

\* The file of table name for the interrupted call.
FileToWrite(name) ==
    IF last.op = "CreateInterrupted" THEN TablePath(last.path, name)
    ELSE last.self.tables[name].path

\* What the call, had it run on, would have left.
Completed ==
    IF last.op = "CreateInterrupted" THEN DataBase_create(last.cls, last.path, Dict(last.kw), World(last.pre))
    ELSE DataBase__call__(last.self, NonePath, last.kw, World(last.pre))

\* A DataBase write has been interrupted on a plain folder path.
WriteInterrupted ==
    /\ last.op \in {"CreateInterrupted", "CallInterrupted"}
    /\ last.op = "CreateInterrupted" => last.path = PathObj(db_folder)

\* C31: when a DataBase create or update is interrupted after k of its table writes, the
\* first k tables in the order of the writes hold the content the call gives them, and
\* every later table holds what it held before the call or is absent as before.
C31_EarlierNewLaterStale ==
    WriteInterrupted =>
        \A i \in 1..Len(NamesToWrite) :
            (NamesToWrite[i] \in DOMAIN NoTables) =>
                IF i <= Len(last.writes)
                THEN fs[FileToWrite(NamesToWrite[i])] = Completed.w.fs[FileToWrite(NamesToWrite[i])]
                ELSE Untouched(last.pre, fs, FileToWrite(NamesToWrite[i]))

\* An interruption has left the first table with its new content beside a second table
\* that is stale: it was to change and holds what it held before.
C31_Witness ==
    /\ WriteInterrupted
    /\ Len(last.writes) = 1
    /\ Len(NamesToWrite) = 2
    /\ is_file(last.pre, FileToWrite(NamesToWrite[1]))
    /\ fs[FileToWrite(NamesToWrite[1])] # last.pre[FileToWrite(NamesToWrite[1])]
    /\ is_file(last.pre, FileToWrite(NamesToWrite[2]))
    /\ fs[FileToWrite(NamesToWrite[2])] = last.pre[FileToWrite(NamesToWrite[2])]
    /\ Completed.w.fs[FileToWrite(NamesToWrite[2])] # fs[FileToWrite(NamesToWrite[2])]

(***************************************************************************)
(* Two processes that run DataBase.create on one folder.  The code takes   *)
(* no lock and keeps no file open between tables, so the tables of the two *)
(* constructors are stored in any interleaving; a step is one DataTable    *)
(* of the loop of DataBase.__init__.                                       *)
(***************************************************************************)
Procs == {1, 2}

Idle == [at |-> "idle", path |-> NonePath, tables |-> EmptyDict, next |-> 0]

\* The tables each process creates with: the two differ in every table they name.
RaceKwargs ==
    [p \in Procs |-> IF p = 1 THEN {<<<<"A", X>>, <<"B", X>>>>, <<<<"A", X>>>>}
                              ELSE {<<<<"A", Row>>, <<"B", Row>>>>, <<<<"B", Wide>>>>}]

RaceInit ==
    /\ pkg \in {"rc", "romcomma"}
    /\ fs \in {EmptyFS, Extraneous, Populated}
    /\ db = NoDB
    /\ meta = NoMeta
    /\ table = NoTable
    /\ model = NoModel
    /\ procs = [p \in Procs |-> Idle]
    /\ last = [op |-> "none", proc |-> 0, err |-> "ok", writes |-> <<>>]
    /\ ops = 0

RaceDone(op, p, err, f, stored, state) ==
    /\ fs' = f
    /\ procs' = [procs EXCEPT ![p] = state]
    /\ last' = [op |-> op, proc |-> p, err |-> err,
                writes |-> last.writes \o [i \in 1..Len(stored) |-> <<p, stored[i]>>]]
    /\ UNCHANGED <<pkg, db, meta, table, model, ops>>

\* Process p calls MyDataBase.create(db, **kw): the assertion, the defaults merged with
\* kw, and Store.__init__, which makes the folder.
RaceBegin(p, kw) ==
    /\ procs[p].at = "idle"
    /\ LET Begun(made) ==
               RaceDone("begin", p, made.err, made.fs, <<>>,
                        [at |-> IF made.err = "ok" THEN "running" ELSE "failed",
                         path |-> PathObj(db_folder),
                         tables |-> DictOr(table_defaults("MyDataBase"), Dict(kw)), next |-> 1])
       IN  Begun(Store_create("DataBase", PathObj(db_folder), fs))

\* Process p constructs its next DataTable, which stores the table.
RaceStore(p) ==
    /\ procs[p].at = "running"
    /\ LET name == table_names("MyDataBase")[procs[p].next]
           Stored(t) ==
               RaceDone("store", p, t.err, t.w.fs, t.w.writes,
                        [procs[p] EXCEPT !.at = IF t.err # "ok" THEN "failed"
                                               ELSE IF procs[p].next = Len(table_names("MyDataBase")) THEN "done"
                                               ELSE "running",
                                         !.next = @ + 1])
       IN  Stored(DataTable__init__(PathObj(Div(procs[p].path.parts, name)), procs[p].tables[name],
                                    DictGet(write_options("MyDataBase"), name, EmptyDict), World(fs)))

RaceNext ==
    \/ \E p \in Procs : \E kw \in RaceKwargs[p] : RaceBegin(p, kw)
    \/ \E p \in Procs : RaceStore(p)

RaceSpec == RaceInit /\ [][RaceNext]_vars

\* Both processes have completed their create.
BothCompleted == \A p \in Procs : procs[p].at = "done"

\* The process that stored the file last.
LastWriter(file) ==
    last.writes[CHOOSE i \in 1..Len(last.writes) :
                    /\ last.writes[i][2] = file
                    /\ \A j \in (i + 1)..Len(last.writes) : last.writes[j][2] # file][1]

\* The text process p gives table name.
TextOf(p, name) == to_csv(procs[p].tables[name].pd, DictGet(write_options("MyDataBase"), name, EmptyDict))

\* C32: two processes that run DataBase.create on one path both complete, and every
\* table of the folder then holds what the process that stored it last gave it, whatever
\* the other tables hold.
C32_LastWriterPerTable ==
    BothCompleted =>
        \A i \in 1..Len(table_names("MyDataBase")) :
            LET name == table_names("MyDataBase")[i]
                file == TablePath(PathObj(db_folder), name)
            IN  /\ is_file(fs, file)
                /\ fs[file].csv = TextOf(LastWriter(file), name)

\* No process fails because of the other: a process that has begun stores its tables.
C32_NoneFails == \A p \in Procs : procs[p].at # "failed"

\* Both processes have completed and the folder is of neither: table A is that of one
\* process and not of the other, table B the reverse.
C32_Witness ==
    /\ BothCompleted
    /\ \E p, q \in Procs :
          /\ p # q
          /\ fs[TablePath(PathObj(db_folder), "A")].csv = TextOf(p, "A")
          /\ fs[TablePath(PathObj(db_folder), "A")].csv # TextOf(q, "A")
          /\ fs[TablePath(PathObj(db_folder), "B")].csv = TextOf(q, "B")
          /\ fs[TablePath(PathObj(db_folder), "B")].csv # TextOf(p, "B")

\* An operation of DataBase has been invoked on the base class, which declares no tables.
OnBaseClass == last.op \in {"New", "Create", "Copy", "Call", "Delete"} /\ last.cls = "DataBase"

\* C33: an operation invoked on the base DataBase class raises AssertionError, and no
\* file or folder has been made, read, written or removed by it.
C33_BaseClassAsserts ==
    OnBaseClass =>
        /\ last.err = "AssertionError"
        /\ fs = last.pre
        /\ last.writes = <<>> /\ last.reads = <<>>

\* DataBase.delete has been invoked on the base class over a folder that holds tables.
C33_Witness ==
    /\ OnBaseClass /\ last.op = "Delete"
    /\ \A p \in TablePaths("MyDataBase", last.path) : is_file(fs, p)

\* The constructor and create have been invoked on the base class where no folder was.
C33_NothingMade ==
    /\ OnBaseClass /\ last.op \in {"New", "Create"}
    /\ ~Exists(last.pre, last.path.parts)

\* The folders the operations of DataBase are given.
FolderArgs == {db_folder, alt_folder, dotted_folder, sibling_folder}

\* The folder the last operation made and its instance reports.
Acted == last.ret

\* The last operation made or loaded a DataBase.
ActedOnFolder ==
    last.op \in {"New", "Create"} /\ last.cls = "MyDataBase" /\ last.err = "ok"

\* C34: the folder an operation makes and reports is the location of no other folder
\* path: a path with another last name is normalized to another folder.
C34_DistinctPathsDistinctFolders ==
    ActedOnFolder =>
        \A q \in FolderArgs : q # last.path.parts => with_suffix(q, ext.DataBase) # Acted

\* C34, seen on disk: deleting db.v1.3 removes no table of the DataBase made as db.v1.2.
C34_DeleteSparesSibling ==
    (last.op = "Delete" /\ last.err = "ok" /\ last.path.parts = sibling_folder) =>
        \A p \in TablePaths(last.cls, PathObj(dotted_folder)) : is_file(last.pre, p) => is_file(fs, p)

\* Two DataBases made from db.v1.2 and from db.v1.3 report the same folder.
C34_SameFolderReported ==
    /\ ActedOnFolder /\ last.path.parts = sibling_folder
    /\ last.self.live /\ last.self.path = last.ret
    /\ is_file(last.pre, TablePath(PathObj(dotted_folder), "A"))

\* C34 for paths whose last names differ before any dot: db and alt stay apart.
C34_DistinctStemsDistinctFolders ==
    ActedOnFolder =>
        \A q \in FolderArgs :
            q[Len(q)][1] # last.path.parts[Len(last.path.parts)][1]
                => with_suffix(q, ext.DataBase) # Acted

\* The last operation returned the DataBase instance at hand.
Returned_db == last.op \in {"New", "Create", "Copy", "Call"} /\ last.err = "ok" /\ db.live

\* Every table of the instance at hand has its file in the folder the instance reports,
\* and the last operation wrote no file elsewhere.
TablesUnderPath ==
    /\ \A i \in 1..Len(table_names(db.cls)) :
           db.tables[table_names(db.cls)[i]].path = TablePath(PathObj(db.path), table_names(db.cls)[i])
    /\ \A i \in 1..Len(last.writes) : parent(last.writes[i]) = db.path

\* C35: the file of every declared table n of a DataBase instance is <db.path>/n.csv, and
\* no table is written under another folder.
C35_TablesUnderPath == Returned_db => TablesUnderPath

\* C35 for a folder whose name has no dot, made or loaded by a constructor.
C35_UndottedTablesUnderPath ==
    (Returned_db /\ last.op \in {"New", "Create", "Copy"} /\ suffix(last.path.parts) = "")
        => TablesUnderPath

\* A DataBase has been made in a fresh folder whose name has no dot, writing its tables.
C35_UndottedWitness ==
    /\ Returned_db /\ last.op = "Create" /\ suffix(last.path.parts) = ""
    /\ ~Exists(last.pre, last.path.parts) /\ Len(last.writes) = Len(table_names(db.cls))

\* The last operation constructed a DataBase with no table supplied, or a DataTable with
\* no data, and returned it.
Loading ==
    /\ last.err = "ok"
    /\ \/ last.op = "New" /\ last.kw = <<>>
       \/ last.op = "TableNew" /\ last.kw[1][2].kind = "None"

\* C36: a load wrote no file.
C36_LoadWritesNothing == Loading => last.writes = <<>>

\* What a load does: it writes every file it read, once, in the order read, with the text
\* the file had.
C36_LoadRewritesWhatItRead ==
    Loading =>
        /\ last.writes = last.reads
        /\ \A i \in 1..Len(last.writes) : fs[last.writes[i]] = last.pre[last.writes[i]]

\* A DataBase of two tables has been loaded.
C36_Loaded == Loading /\ last.op = "New" /\ Len(last.reads) = 2

\* The last operation was a construction of a DataBase that raised FileNotFoundError.
NotFound == last.op = "New" /\ last.err = "FileNotFoundError"

\* C37: a construction that fails with FileNotFoundError leaves the file system as it was.
C37_NotFoundChangesNothing == NotFound => fs = last.pre

\* What is left by it: no file or folder is removed; the folder exists; the tables declared
\* before the missing one have been written; nothing else is new.
C37_NotFoundLeavesFolderAndEarlierTables ==
    NotFound =>
        /\ is_dir(fs, with_suffix(last.path.parts, ext.DataBase))
        /\ \A i \in 1..Len(last.writes) :
               /\ last.writes[i] \in TablePaths(last.cls, last.path)
               /\ is_file(fs, last.writes[i])
        /\ \A p \in DOMAIN last.pre : p \in DOMAIN fs
        /\ \A p \in DOMAIN fs :
               \/ p \in DOMAIN last.pre
               \/ p \in {with_suffix(last.path.parts, ext.DataBase), last.path.parts}
               \/ \E i \in 1..Len(last.writes) : p = last.writes[i]

\* A construction was given table A, found no folder, and failed for the want of table B.
C37_FolderAndTableLeft ==
    /\ NotFound /\ ~Exists(last.pre, last.path.parts)
    /\ is_dir(fs, last.path.parts) /\ is_file(fs, TablePath(last.path, "A"))

\* The position of the first name of the last call's keywords that is no declared table, or 0.
FirstUndeclared ==
    IF \A j \in 1..Len(last.kw) : last.kw[j][1] \in DOMAIN NoTables THEN 0
    ELSE CHOOSE j \in 1..Len(last.kw) :
            /\ last.kw[j][1] \notin DOMAIN NoTables
            /\ \A i \in 1..(j - 1) : last.kw[i][1] \in DOMAIN NoTables

\* The last operation was an update in place that named an undeclared table.
NamedUndeclared == last.op = "Call" /\ last.path.tag = "None" /\ FirstUndeclared > 0

\* C38: an update that names an undeclared table raises, and every table is as it was, in
\* memory and on disk.
C38_UndeclaredRewritesNothing ==
    NamedUndeclared =>
        /\ last.err # "ok"
        /\ fs = last.pre
        /\ db.tables = last.self.tables

\* What holds instead: the update raises KeyError; exactly the tables named before the
\* undeclared name have been written, in memory and on disk.
C38_WritesUpToUndeclared ==
    NamedUndeclared =>
        /\ last.err = "KeyError"
        /\ last.writes = [i \in 1..(FirstUndeclared - 1) |-> db.tables[last.kw[i][1]].path]
        /\ \A n \in DOMAIN NoTables :
               (\A i \in 1..(FirstUndeclared - 1) : last.kw[i][1] # n)
                   => /\ db.tables[n] = last.self.tables[n]
                      /\ fs[db.tables[n].path] = last.pre[db.tables[n].path]

\* An update named table A with a new value and then an undeclared table: A is rewritten.
C38_EarlierRewritten ==
    /\ NamedUndeclared /\ FirstUndeclared = 2 /\ last.err = "KeyError"
    /\ fs[db.tables.A.path] # last.pre[db.tables.A.path]
    /\ db.tables.A # last.self.tables.A

(***************************************************************************)
(* Two Meta handles on one file: each is loaded by Meta(path) and then     *)
(* stores one update by calling the handle, in any interleaving.           *)
(***************************************************************************)
meta_file == PathObj(Div(db_folder, "meta"))

\* The records the file holds before either handle is loaded.
StoredRecords == {[K |-> Val("int", "2")], [K |-> Val("int", "2"), J |-> Val("int", "1")]}

\* The updates each handle stores: a key the other never names, or the key K.
HandleUpdates ==
    [p \in Procs |-> IF p = 1 THEN {[J |-> Val("int", "7")], [K |-> Val("int", "9")]}
                              ELSE {[L |-> Val("tuple", "1,2,3")], [K |-> Val("int", "8")]}]

Unloaded == [at |-> "idle", h |-> NoMeta, loaded |-> EmptyDict, update |-> EmptyDict]

HandleInit ==
    /\ pkg \in {"rc", "romcomma"}
    /\ fs \in {Put(Put(EmptyFS, db_folder, DirEntry), with_suffix(meta_file.parts, ext.Meta),
                    JsonFile(dump(record))) : record \in StoredRecords}
    /\ db = NoDB
    /\ meta = NoMeta
    /\ table = NoTable
    /\ model = NoModel
    /\ procs = [p \in Procs |-> Unloaded]
    /\ last = [op |-> "none", proc |-> 0, err |-> "ok", stores |-> <<>>]
    /\ ops = 0

HandleDone(op, p, m, state) ==
    /\ fs' = m.w.fs
    /\ procs' = [procs EXCEPT ![p] = state]
    /\ last' = [op |-> op, proc |-> p, err |-> m.err,
                stores |-> IF op = "store" THEN Append(last.stores, p) ELSE last.stores]
    /\ UNCHANGED <<pkg, db, meta, table, model, ops>>

\* Handle p is loaded: meta = Meta(path)
HandleLoad(p) ==
    /\ procs[p].at = "idle"
    /\ LET HandleLoaded(m) == HandleDone("load", p, m,
                                   [at |-> IF m.err = "ok" THEN "loaded" ELSE "failed", h |-> m.h,
                                    loaded |-> m.h.data, update |-> EmptyDict])
       IN  HandleLoaded(Meta__init__(meta_file, EmptyDict, World(fs)))

\* Handle p stores an update: meta(**data)
HandleStore(p, data) ==
    /\ procs[p].at = "loaded"
    /\ LET HandleStored(m) == HandleDone("store", p, m,
                                   [procs[p] EXCEPT !.at = IF m.err = "ok" THEN "stored" ELSE "failed",
                                                    !.h = m.h, !.update = data])
       IN  HandleStored(Meta__call__(procs[p].h, NonePath, data, World(fs)))

HandleNext ==
    \/ \E p \in Procs : HandleLoad(p)
    \/ \E p \in Procs : \E data \in HandleUpdates[p] : HandleStore(p, data)

HandleSpec == HandleInit /\ [][HandleNext]_vars

\* The record in the file.
FileRecord == load(fs[with_suffix(meta_file.parts, ext.Meta)].json)

\* Both handles were loaded from the same record and each has stored an update of a key
\* the other did not update.
BothStored ==
    /\ \A p \in Procs : procs[p].at = "stored"
    /\ procs[1].loaded = procs[2].loaded
    /\ (DOMAIN procs[1].update) \cap (DOMAIN procs[2].update) = {}

\* The file holds the update of handle p.
HoldsUpdate(p) ==
    \A k \in DOMAIN procs[p].update :
        k \in DOMAIN FileRecord /\ FileRecord[k] = dump(procs[p].update)[k]

\* C39: when two handles loaded from the same file have each stored an update of a
\* different key, the file holds both updates.
C39_NoLostUpdate == BothStored => \A p \in Procs : HoldsUpdate(p)

\* What holds instead: the file is the dump of the record of the handle that stored last,
\* which is the record it loaded with its own update; the other handle's update is gone
\* unless the file held that value before.
C39_LastStoreWins ==
    BothStored =>
        LET p == last.stores[Len(last.stores)]
        IN  /\ FileRecord = dump(DictOr(procs[p].loaded, procs[p].update))
            /\ \A q \in Procs \ {p} : \A k \in DOMAIN procs[q].update :
                   k \in DOMAIN FileRecord => FileRecord[k] = dump(procs[p].loaded)[k]

\* Both have stored, the first a key the file lacked: the file no longer has that key.
C39_UpdateLost ==
    /\ BothStored
    /\ \E k \in DOMAIN procs[last.stores[1]].update : k \notin DOMAIN FileRecord

\* A handle loaded after the other stored keeps the other's update when it stores.
C39_LoadedAfterStoreKeepsBoth ==
    (/\ \A p \in Procs : procs[p].at = "stored"
     /\ \E p \in Procs : procs[p].loaded = dump(DictOr(procs[3 - p].loaded, procs[3 - p].update))
     /\ (DOMAIN procs[1].update) \cap (DOMAIN procs[2].update) = {})
        => \A p \in Procs : HoldsUpdate(p)

\* Model.create has been invoked on a concrete subclass that does not override Model.DataBase.
CreatedBare == last.op = "ModelCreate" /\ last.cls = "BareModel"

\* C40: Model.create on a subclass that does not override Model.DataBase raises
\* AssertionError, and no file has been written.
C40_BareModelRejected ==
    CreatedBare =>
        /\ last.err = "AssertionError"
        /\ fs = last.pre
        /\ last.writes = <<>>

\* What holds instead: the create never raises AssertionError.
C40_BareModelNeverAsserts == CreatedBare => last.err # "AssertionError"

\* Unless a folder is where meta.json is to be, the create returns a Model, having written
\* meta.json and the one table of Model.DataBase, NotImplemented.csv, in this order.
C40_BareModelCreated ==
    (CreatedBare /\ ~is_dir(last.pre, with_suffix(meta_in(last.path).parts, ext.Meta))) =>
        /\ last.err = "ok"
        /\ model.live /\ model.cls = "BareModel" /\ model.data.cls = "Model.DataBase"
        /\ last.writes = <<with_suffix(meta_in(last.path).parts, ext.Meta),
                           TablePath(last.path, "NotImplemented")>>
        /\ \A i \in 1..Len(last.writes) : is_file(fs, last.writes[i])

\* Such a Model has been created where no folder was.
C40_PlaceholderStored ==
    /\ CreatedBare /\ last.err = "ok"
    /\ ~Exists(last.pre, last.path.parts)
    /\ is_file(fs, TablePath(last.path, "NotImplemented"))
====
